---- MODULE Spec2Model ----
(***************************************************************************)
(* Building selection, identification, property fetch and floor synthesis  *)
(* of the Rotterdam property viewer (BuildingSelector, FloorGenerator,     *)
(* PropertyDataService, InfoPanel, TileStyleManager, BuildingDataLoader),  *)
(* as a state machine of the browser's                                     *)
(* event loop: one action per task (click handler with the microtasks it   *)
(* queues, network completion, timer).                                     *)
(***************************************************************************)
EXTENDS Integers, Sequences, FiniteSets, TLC

\* ------------------------------------------------------------------ bounds
\* Asynchronous operations (requests, timers) in flight at the same time.
MaxPending == 2
\* User events (clicks) in a run.
MaxClicks == 4
\* SpecStyle: the operations on the dataset, the styles and the selection
MaxStyleOps == 3

\* --------------------------------------------------------------- variables
VARIABLES
    selectedFeature,        \* BuildingSelector.selectedFeature: a feature name or Null
    currentBuildingId,      \* BuildingSelector.currentBuildingId
    buildingsWithInfo,      \* BuildingSelector.buildingsWithInfo
    smBuildingsWithInfo,    \* TileStyleManager.buildingsWithInfo
    showFloors,             \* BuildingSelector.showFloorsForSelectedBuilding
    floorEntities,          \* FloorGenerator.floorEntities
    buildingPositions,      \* FloorGenerator.buildingPositions
    activeBuilding,         \* FloorGenerator.activeBuilding
    viewerEntities,         \* viewer.entities: entity -> show
    panel,                  \* the InfoPanel
    floorError,             \* the floor-generation error box is shown
    cache,                  \* PropertyDataService.cache
    pending,                \* requests and timers in flight, oldest first
    clicks,                 \* user events handled so far
    call,                   \* a function applied on its own to drawn arguments
    loaded,                 \* BuildingDataLoader.loaded
    buildingIds,            \* BuildingDataLoader.buildingIds: the dataset membership set
    databaseBuildingIds,    \* TileStyleManager.databaseBuildingIds
    tileSetStyle,           \* the style set on the tilesets
    featureColor,           \* feature.color of each feature, as last assigned
    floorModeActive,        \* the Floor Mode button is on
    allProperties,          \* InfoPanel.allProperties: the number of records it holds
    currentPage,            \* InfoPanel.currentPage
    pagination              \* the records listed and the page buttons rendered

\* ------------------------------------------------------------------ values
\* JavaScript null / undefined.
Null == "null"

\* The 16-digit building ids of the model.  IdL is the id the source treats as
\* L-shaped and lists in its hand-surveyed table; IdA has records and is not in
\* the table; IdE has no records in the database.
IdL == "0599100000035588"
IdA == "0599100000668111"
IdE == "0599100000000017"
BuildingIds == {IdL, IdA, IdE}

\* A property value: k says what kind of JavaScript value it is and s carries
\* its text.  "exact" is a string of exactly 16 digits (s), "embedded" a longer
\* string that contains the 16-digit run s, "plain" a non-empty string with no
\* run of 16 digits, "absent" an undefined property.
Val(k, s) == [k |-> k, s |-> s]
NoVal == Val("absent", Null)

\* value.match(/^[0-9]{16}$/) on a string value
MatchExact16(v) == IF v.k = "exact" THEN v.s ELSE Null

\* String(value).match(/[0-9]{16}/): the first run of 16 digits
MatchEmbedded16(v) == IF v.k \in {"exact", "embedded"} THEN v.s ELSE Null

\* url.match(/[0-9]{10,}/): the first run of ten or more digits.  The values
\* modelled carry one run of sixteen digits or none.
MatchDigits10(v) == IF v.k \in {"exact", "embedded"} THEN v.s ELSE Null

\* JavaScript truthiness of a property value
Truthy(v) == v.k # "absent"

\* value.toString()
idToString(v) == IF v.k = "embedded" THEN "x" \o v.s ELSE v.s

\* ---------------------------------------------------------------- features
PropNames == {"PANDID", "pandid", "id", "ID", "buildingId", "gml:id",
              "identificatie", "identificatie_bag", "name"}

\* The property names getFeatureBuildingId tries, in its order.
CanonicalNames == <<"PANDID", "pandid", "id", "ID", "buildingId", "gml:id">>

NoProps == [n \in PropNames |-> NoVal]

\* A tile feature: its property table, the batch table of its content (names
\* to values), the id of its primitive, the digits of its content url, which
\* transform / bounding volumes it carries, the radius of its bounding sphere
\* (metres) and its "height" property (<<>> when it has none).  name is the
\* name the model gives the feature.
BaseFeature ==
    [name |-> Null, props |-> NoProps, batch |-> NoProps, primId |-> NoVal,
     url |-> NoVal, content |-> TRUE, model |-> FALSE, primBS |-> FALSE,
     tileBS |-> TRUE, contentBS |-> FALSE, radius |-> 10, height |-> <<>>]

\* No feature (null): nothing can be read from it.
NoFeature == [BaseFeature EXCEPT !.content = FALSE, !.tileBS = FALSE]

FeatureNames == {"fL", "fA", "fE", "fP", "fN"}

Feature(f) ==
    CASE f = "fL" -> [BaseFeature EXCEPT !.name = f,
                                         !.props["id"] = Val("exact", IdL)]
      [] f = "fA" -> [BaseFeature EXCEPT !.name = f,
                                         !.props["id"] = Val("exact", IdA),
                                         !.model = TRUE]
      [] f = "fE" -> [BaseFeature EXCEPT !.name = f,
                                         !.props["id"] = Val("exact", IdE),
                                         !.primBS = TRUE]
      [] f = "fP" -> [BaseFeature EXCEPT !.name = f,
                                         !.props["PANDID"] = Val("exact", IdA),
                                         !.props["id"] = Val("plain", "bldg_7")]
      [] f = "fN" -> [BaseFeature EXCEPT !.name = f,
                                         !.props["id"] = Val("plain", "bldg_9"),
                                         !.props["name"] = Val("plain", "Kade 3")]
      [] f = "fG" -> [BaseFeature EXCEPT !.name = f,
                                         !.props["gml:id"] = Val("embedded", IdE),
                                         !.props["name"] = Val("plain", "Kade 5")]
      [] f = "fM" -> [BaseFeature EXCEPT !.name = f,
                                         !.props["PANDID"] = Val("embedded", IdE),
                                         !.props["id"] = Val("exact", IdA)]
      [] OTHER    -> NoFeature

\* The features of the tileset: those of FeatureNames, fG whose only digits
\* are embedded in gml:id, and fM whose PANDID embeds the digits of one
\* building while its id is exactly the id of another.
TileFeatureNames == FeatureNames \cup {"fG", "fM"}

\* feature.getPropertyNames(): the property names in the order of the tileset
PropertyOrder == <<"PANDID", "pandid", "id", "ID", "buildingId", "gml:id",
                   "identificatie", "identificatie_bag", "name">>

hasProperty(feat, name) == feat.props[name].k # "absent"
getProperty(feat, name) == feat.props[name]

\* ------------------------------------------------------- FeatureIdentifier
RECURSIVE CanonicalFrom(_, _)
\* the loop over the candidate names: the first one holding an exact 16-digit string
CanonicalFrom(feat, i) ==
    IF i > Len(CanonicalNames) THEN Null
    ELSE IF hasProperty(feat, CanonicalNames[i])
            /\ MatchExact16(getProperty(feat, CanonicalNames[i])) # Null
         THEN MatchExact16(getProperty(feat, CanonicalNames[i]))
         ELSE CanonicalFrom(feat, i + 1)

\* the batch table search: names that contain "id" (any case), exact 16 digits
BatchIdNames == {"PANDID", "pandid", "id", "ID", "buildingId", "gml:id",
                 "identificatie", "identificatie_bag"}
BatchOrder == <<"PANDID", "pandid", "id", "ID", "buildingId", "gml:id",
                "identificatie", "identificatie_bag", "name">>

RECURSIVE BatchFrom(_, _)
BatchFrom(feat, i) ==
    IF i > Len(BatchOrder) THEN Null
    ELSE IF BatchOrder[i] \in BatchIdNames
            /\ MatchExact16(feat.batch[BatchOrder[i]]) # Null
         THEN MatchExact16(feat.batch[BatchOrder[i]])
         ELSE BatchFrom(feat, i + 1)

extractBuildingIdFromFeature(feat) == BatchFrom(feat, 1)

\* getFeatureBuildingId that falls back on the text of the "id" property
getFeatureBuildingId_AnyId(feat) ==
    IF CanonicalFrom(feat, 1) # Null THEN CanonicalFrom(feat, 1)
    ELSE IF Truthy(getProperty(feat, "id")) THEN idToString(getProperty(feat, "id"))
    ELSE extractBuildingIdFromFeature(feat)

\* getFeatureBuildingId that answers with the current building id when there is one
getFeatureBuildingId_Sticky(feat) ==
    IF currentBuildingId # Null THEN currentBuildingId
    ELSE IF CanonicalFrom(feat, 1) # Null THEN CanonicalFrom(feat, 1)
    ELSE IF hasProperty(feat, "gml:id") /\ MatchEmbedded16(getProperty(feat, "gml:id")) # Null
         THEN MatchEmbedded16(getProperty(feat, "gml:id"))
         ELSE extractBuildingIdFromFeature(feat)

\* getFeatureBuildingId that tries the digits of gml:id before the exact values
getFeatureBuildingId_GmlFirst(feat) ==
    IF hasProperty(feat, "gml:id") /\ MatchEmbedded16(getProperty(feat, "gml:id")) # Null
    THEN MatchEmbedded16(getProperty(feat, "gml:id"))
    ELSE IF CanonicalFrom(feat, 1) # Null THEN CanonicalFrom(feat, 1)
    ELSE extractBuildingIdFromFeature(feat)

getFeatureBuildingId(feat) ==
    IF CanonicalFrom(feat, 1) # Null THEN CanonicalFrom(feat, 1)
    ELSE IF hasProperty(feat, "gml:id") /\ MatchEmbedded16(getProperty(feat, "gml:id")) # Null
         THEN MatchEmbedded16(getProperty(feat, "gml:id"))
         ELSE extractBuildingIdFromFeature(feat)

\* FloorGenerator's own identifier of a feature: the key of its floor map.
extractBuildingId(feat) ==
    IF Truthy(getProperty(feat, "id")) THEN idToString(getProperty(feat, "id"))
    ELSE IF Truthy(getProperty(feat, "identificatie"))
         THEN idToString(getProperty(feat, "identificatie"))
    ELSE IF Truthy(getProperty(feat, "identificatie_bag"))
         THEN idToString(getProperty(feat, "identificatie_bag"))
    ELSE IF Truthy(feat.primId) THEN idToString(feat.primId)
    ELSE IF MatchDigits10(feat.url) # Null THEN MatchDigits10(feat.url)
    ELSE Null

\* ------------------------------------------------------- property records
\* One unit row of the database.  A numeric field is <<n>>, or <<>> when the
\* row does not carry it.
Rec(pandid, aant, hoog, laag, vb0) ==
    [pandid |-> pandid, aant_bwlg_pnd |-> aant, hoogste_bwlg_pnd |-> hoog,
     laagste_bwlg_pnd |-> laag, bwlg_vb0 |-> vb0]

\* The rows the server holds for a building id (GET /api/woz/:pandid).
RecordsOf(id) ==
    CASE id = IdL -> << Rec(IdL, <<1>>, <<0>>, <<0>>, <<0>>) >>
      [] id = IdA -> << Rec(IdA, <<>>, <<1>>, <<0>>, <<0>>),
                        Rec(IdA, <<>>, <<1>>, <<0>>, <<1>>) >>
      [] OTHER    -> << >>

\* properties && properties.length > 0
HasRecords(properties) == Len(properties) > 0

\* the floor count of getDetailedFloorInfo when no field gives one
DefaultTotalFloors == 9

\* What getDetailedFloorInfo returns: null (valid = FALSE) or the floor count.
FloorInfo(totalFloors) == [valid |-> TRUE, totalFloors |-> totalFloors]
NullFloorInfo == [valid |-> FALSE, totalFloors |-> 0]

getDetailedFloorInfo(properties) ==
    IF ~HasRecords(properties) THEN NullFloorInfo
    ELSE LET firstProp == properties[1] IN
         IF firstProp.aant_bwlg_pnd # <<>> /\ firstProp.aant_bwlg_pnd[1] > 0
         THEN FloorInfo(firstProp.aant_bwlg_pnd[1])
         ELSE IF firstProp.hoogste_bwlg_pnd # <<>> /\ firstProp.laagste_bwlg_pnd # <<>>
              THEN FloorInfo(firstProp.hoogste_bwlg_pnd[1]
                             - firstProp.laagste_bwlg_pnd[1] + 1)
              ELSE FloorInfo(DefaultTotalFloors)

\* --------------------------------------------------------------- positions
\* A world position, named by where it comes from: the feature's model matrix
\* ("model"), a bounding sphere of the feature ("prim"), of its tile ("tile")
\* or of its content ("content"), a pick of the globe or of the ellipsoid
\* through the building's screen position ("globe"), the
\* hand-surveyed table ("known") or the fixed Rotterdam centre ("default").
Pos(src, ref) == [src |-> src, ref |-> ref]
DefaultPosition == Pos("default", "rotterdam")
\* no position (null / undefined)
NullPos == Pos("null", Null)

\* The positionInfo that setBuildingPosition stores, and the absence of one.
\* Its position is the only field the source ever reads back; screenPosition
\* and isManual are written and never read, and are left out.
PositionInfo(position) == [position |-> position]
NoPositionInfo == PositionInfo(NullPos)

\* the ids of the knownBuildings table that the model uses
KnownBuildings == {IdL}

getKnownBuildingPosition(buildingId) ==
    IF buildingId # Null /\ buildingId \in KnownBuildings
    THEN Pos("known", buildingId)
    ELSE DefaultPosition

\* What the scene answers for a lookup through the screen position.
SceneAnswers == {"none", "globe", "nothing"}

\* getSelectedFeatureScreenPosition: the window coordinates of the selected
\* feature, or Null ("none": the conversion gives nothing)
getSelectedFeatureScreenPosition(sel, answer) ==
    IF sel = Null \/ answer = "none" THEN Null ELSE sel

\* getEarthPositionFromScreen(screenPosition)
getEarthPositionFromScreen(screenPosition, answer, buildingId) ==
    IF screenPosition = Null THEN NullPos
    ELSE IF answer = "globe" THEN Pos("globe", screenPosition)
    ELSE getKnownBuildingPosition(buildingId)

\* The geometry built around a stored position when the feature gives none.
DefaultGeometry(position) ==
    [position |-> position, widthCm |-> 4000, lengthCm |-> 4000, height |-> 45,
     isLShaped |-> FALSE]
\* extractDetailedGeometry returning null
NullGeometry == DefaultGeometry(NullPos)

\* extractDetailedGeometry(feature, storedPosition): feat is a feature or
\* NoFeature, stored a positionInfo or NoPositionInfo; the result is a geometry
\* or NullGeometry.
extractDetailedGeometry(feat, stored) ==
    LET position0 == stored.position
    IN IF feat.name = Null \/ ~feat.content
       THEN IF position0 # NullPos THEN DefaultGeometry(position0) ELSE NullGeometry
       ELSE
         LET position ==
                 IF position0 # NullPos THEN position0
                 ELSE IF feat.model THEN Pos("model", feat.name)
                 ELSE IF feat.primBS THEN Pos("prim", feat.name)
                 ELSE IF feat.tileBS THEN Pos("tile", feat.name)
                 ELSE IF feat.contentBS THEN Pos("content", feat.name)
                 ELSE NullPos
             hasSphere == feat.primBS \/ feat.tileBS \/ feat.contentBS
                          \/ position # NullPos
             radius == IF feat.primBS \/ feat.tileBS \/ feat.contentBS
                       THEN feat.radius ELSE 40
         IN IF ~hasSphere THEN NullGeometry
            ELSE [position |-> position,
                  widthCm |-> radius * 128, lengthCm |-> radius * 128,
                  height |-> IF feat.height # <<>> /\ feat.height[1] # 0
                             THEN feat.height[1] ELSE radius * 2,
                  isLShaped |-> extractBuildingId(feat) = IdL]

\* ----------------------------------------------------------- floor entities
\* An entity of the viewer's collection, named by its id: floor n of a
\* building key ("floor"), sub-volume j of a compound floor ("part"), or the
\* outline box of a building ("outline").
Ent(t, b, n, j) == [t |-> t, b |-> b, n |-> n, j |-> j]
FloorEnt(key, n) == Ent("floor", key, n, 0)
OutlineEnt(key) == Ent("outline", key, 0, 0)

\* The FloorGenerator and the viewer's entity collection as one value:
\* fe is floorEntities (key -> list of entities), bp is buildingPositions,
\* ab is activeBuilding, vw maps every entity of the collection to its show flag.
World(fe, bp, ab, vw) == [fe |-> fe, bp |-> bp, ab |-> ab, vw |-> vw]

Range(seq) == {seq[i] : i \in 1..Len(seq)}
Without(fn, keys) == [k \in DOMAIN fn \ keys |-> fn[k]]
Put(fn, k, v) == [x \in DOMAIN fn \cup {k} |-> IF x = k THEN v ELSE fn[x]]

setBuildingPosition(w, buildingId, positionInfo) ==
    [w EXCEPT !.bp = Put(w.bp, buildingId, positionInfo)]

getBuildingPosition(w, buildingId) ==
    IF buildingId \in DOMAIN w.bp THEN w.bp[buildingId] ELSE NoPositionInfo

removeFloorModels(w, buildingId) ==
    IF buildingId \in DOMAIN w.fe /\ Len(w.fe[buildingId]) > 0
    THEN [w EXCEPT !.vw = Without(w.vw, Range(w.fe[buildingId])),
                   !.fe = Without(w.fe, {buildingId})]
    ELSE w

removeAllFloorModels(w) ==
    [w EXCEPT !.vw = Without(w.vw, UNION {Range(w.fe[k]) : k \in DOMAIN w.fe}),
              !.fe = << >>]

\* setFloorsVisible that flips the show flag of the floors it is given
setFloorsVisible_Flip(w, buildingId, visible) ==
    IF buildingId \in DOMAIN w.fe /\ Len(w.fe[buildingId]) > 0
    THEN [w EXCEPT !.vw = [e \in DOMAIN w.vw |->
                             IF e \in Range(w.fe[buildingId]) THEN ~w.vw[e]
                             ELSE w.vw[e]]]
    ELSE w

\* setFloorsVisible(buildingId, visible): the show flag of every tracked
\* entity of the building that the collection contains
setFloorsVisible(w, buildingId, visible) ==
    IF buildingId \in DOMAIN w.fe /\ Len(w.fe[buildingId]) > 0
    THEN [w EXCEPT !.vw = [e \in DOMAIN w.vw |->
                             IF e \in Range(w.fe[buildingId]) THEN visible
                             ELSE w.vw[e]]]
    ELSE w

\* viewer.entities.add of an entity with an id of its own choosing: the
\* collection refuses (throws) an id it already holds
CanAdd(vw, e) == e \notin DOMAIN vw
AddEntity(vw, e) == Put(vw, e, TRUE)

\* createComplexShapeFloorEntity for the L-shaped building: the two
\* sub-volumes are added to the collection, the parent is returned
AddParts(vw, key, n) ==
    Put(Put(vw, Ent("part", key, n, 1), TRUE), Ent("part", key, n, 2), TRUE)

RECURSIVE BuildFloors(_, _, _, _, _, _)
\* the floor loop of generateFloorModels from floor n on; threw says that
\* viewer.entities.add refused an entity and ended the loop
BuildFloors(vw, key, lshaped, n, total, acc) ==
    IF n >= total THEN [vw |-> vw, ents |-> acc, threw |-> FALSE]
    ELSE LET vw1 == IF lshaped /\ key = IdL THEN AddParts(vw, key, n) ELSE vw
         IN IF ~CanAdd(vw1, FloorEnt(key, n))
            THEN [vw |-> vw1, ents |-> acc, threw |-> TRUE]
            ELSE BuildFloors(AddEntity(vw1, FloorEnt(key, n)), key, lshaped,
                             n + 1, total, Append(acc, FloorEnt(key, n)))

\* addBuildingOutline: adds the outline box unless the collection refuses it
addBuildingOutline(vw, key) ==
    IF CanAdd(vw, OutlineEnt(key)) THEN AddEntity(vw, OutlineEnt(key)) ELSE vw

\* generateFloorModels that removes every floor before it validates its input
generateFloorModels_ClearsFirst(w, feat, properties) ==
    LET w0 == removeAllFloorModels(w)
        buildingId == extractBuildingId(feat)
    IN IF buildingId = Null THEN [w |-> w0, ok |-> FALSE]
       ELSE
         LET geometry == extractDetailedGeometry(feat, getBuildingPosition(w0, buildingId))
             floorInfo == getDetailedFloorInfo(properties)
         IN IF geometry = NullGeometry THEN [w |-> w0, ok |-> FALSE]
            ELSE IF ~floorInfo.valid THEN [w |-> w0, ok |-> FALSE]
            ELSE IF floorInfo.totalFloors <= 0 THEN [w |-> w0, ok |-> FALSE]
            ELSE
              LET lshaped == geometry.isLShaped \/ buildingId = IdL
                  built == BuildFloors(w0.vw, buildingId, lshaped, 0,
                                       floorInfo.totalFloors, << >>)
              IN IF built.threw
                 THEN [w |-> [w0 EXCEPT !.vw = built.vw], ok |-> FALSE]
                 ELSE [w |-> [w0 EXCEPT !.vw = addBuildingOutline(built.vw, buildingId),
                                        !.fe = Put(w0.fe, buildingId, built.ents),
                                        !.ab = buildingId],
                       ok |-> TRUE]

\* generateFloorModels(buildingFeature, properties): the world afterwards and
\* the boolean it returns
generateFloorModels(w, feat, properties) ==
    LET buildingId == extractBuildingId(feat)
    IN IF buildingId = Null THEN [w |-> w, ok |-> FALSE]
       ELSE
         LET geometry == extractDetailedGeometry(feat, getBuildingPosition(w, buildingId))
             floorInfo == getDetailedFloorInfo(properties)
         IN IF geometry = NullGeometry THEN [w |-> w, ok |-> FALSE]
            ELSE IF ~floorInfo.valid THEN [w |-> w, ok |-> FALSE]
            ELSE IF floorInfo.totalFloors <= 0 THEN [w |-> w, ok |-> FALSE]
            ELSE
              LET w1 == removeFloorModels(w, buildingId)
                  lshaped == geometry.isLShaped \/ buildingId = IdL
                  built == BuildFloors(w1.vw, buildingId, lshaped, 0,
                                       floorInfo.totalFloors, << >>)
              IN IF built.threw
                 THEN [w |-> [w1 EXCEPT !.vw = built.vw], ok |-> FALSE]
                 ELSE [w |-> [w1 EXCEPT !.vw = addBuildingOutline(built.vw, buildingId),
                                        !.fe = Put(w1.fe, buildingId, built.ents),
                                        !.ab = buildingId],
                       ok |-> TRUE]

\* ------------------------------------------------- what the floor loop computes
\* getPropertiesOnFloor that also takes the records of the floors below
getPropertiesOnFloor_AndBelow(properties, floorNum) ==
    SelectSeq(properties, LAMBDA p : p.bwlg_vb0 # <<>> /\ p.bwlg_vb0[1] <= floorNum)

\* getPropertiesOnFloor(properties, floorNum): the records whose floor index
\* (bwlg_vb0) is exactly floorNum, in their order
getPropertiesOnFloor(properties, floorNum) ==
    SelectSeq(properties, LAMBDA p : p.bwlg_vb0 = <<floorNum>>)

\* A colour by hue (the fraction num / den of a turn), saturation, lightness
\* and alpha (percent).
Hsl(num, den, sat, light, alpha) ==
    [num |-> num, den |-> den, sat |-> sat, light |-> light, alpha |-> alpha]
\* Cesium.Color.RED.withAlpha(0.8) and Cesium.Color.BLUE.withAlpha(0.8)
GroundColor == Hsl(0, 1, 100, 50, 80)
TopColor == Hsl(2, 3, 100, 50, 80)

\* Math.max(1, totalFloors - 1)
ColorSteps(totalFloors) == IF totalFloors - 1 > 1 THEN totalFloors - 1 ELSE 1

\* getFloorColor(floorNum, totalFloors): between the ends the hue is
\* 0.6 - (floorNum / Math.max(1, totalFloors - 1)) * 0.6
getFloorColor(floorNum, totalFloors) ==
    IF floorNum = 0 THEN GroundColor
    ELSE IF floorNum = totalFloors - 1 THEN TopColor
    ELSE Hsl(6 * (ColorSteps(totalFloors) - floorNum), 10 * ColorSteps(totalFloors),
             80, 60, 80)

\* floorZ that puts the floor at its lower boundary (no floorHeight / 2)
floorZ_AtBoundary(anchorHeight, buildingHeight, totalFloors, floorNum) ==
    2 * totalFloors * anchorHeight - totalFloors * buildingHeight
    + floorNum * 2 * buildingHeight

\* The height of the centre of floor floorNum, in units of 1 / (2 * totalFloors)
\* metre so that the divisions of the source are exact:
\*   buildingBottom = cartographic.height - buildingHeight / 2
\*   floorHeight    = buildingHeight / totalFloors
\*   floorZ         = buildingBottom + floorNum * floorHeight + floorHeight / 2
floorZ(anchorHeight, buildingHeight, totalFloors, floorNum) ==
    LET buildingBottom == 2 * totalFloors * anchorHeight - totalFloors * buildingHeight
        floorHeight == 2 * buildingHeight
    IN buildingBottom + floorNum * floorHeight + floorHeight \div 2

\* What the floor loop computes for each floor it creates: its number, the
\* height of its centre and its vertical extent (both in the unit of floorZ),
\* the records shown on it and its colour.
FloorLoop(anchorHeight, buildingHeight, totalFloors, properties) ==
    [n \in 1..totalFloors |->
        [floorNum |-> n - 1,
         z |-> floorZ(anchorHeight, buildingHeight, totalFloors, n - 1),
         floorHeight |-> 2 * buildingHeight,
         properties |-> getPropertiesOnFloor(properties, n - 1),
         color |-> getFloorColor(n - 1, totalFloors)]]

\* -------------------------------------------------------------- info panel
\* The info panel: whether it is displayed, what its building-info area shows
\* (kind, and the building id it names), whether the controls container holds
\* the floor-toggle button and whether that button is active.
Panel(visible, kind, subject, controls, active) ==
    [visible |-> visible, kind |-> kind, subject |-> subject,
     controls |-> controls, active |-> active]

hide(p) == [p EXCEPT !.visible = FALSE]

\* showError(message): kind names the message, subject the id it mentions
showError(p, kind, subject) ==
    [p EXCEPT !.kind = kind, !.subject = subject, !.controls = FALSE,
              !.visible = TRUE]

displayProperties(p, properties) ==
    IF Len(properties) = 0 THEN showError(p, "noinfo", Null)
    ELSE [p EXCEPT !.kind = "props", !.subject = properties[1].pandid,
                   !.visible = TRUE]

addFloorToggleButton(p, initialState) ==
    [p EXCEPT !.controls = TRUE, !.active = initialState]

updateFloorToggleButton(p, active) ==
    IF p.controls THEN [p EXCEPT !.active = active] ELSE p

\* InfoPanel.itemsPerPage
itemsPerPage == 10

Min(a, b) == IF a < b THEN a ELSE b
Max(a, b) == IF a > b THEN a ELSE b

\* Math.ceil(count / itemsPerPage)
totalPagesOf(count) == (count + itemsPerPage - 1) \div itemsPerPage

\* the page-number buttons when the window of five is not cut at the last page
pageNumbers_Unclamped(page, totalPages) ==
    Max(1, page - 2) .. (Max(1, page - 2) + 4)

\* the page-number buttons of displayPropertiesPage: startPage..endPage
pageNumbers(page, totalPages) ==
    LET startPage == Max(1, page - 2)
        endPage == Min(totalPages, startPage + 4)
    IN startPage .. endPage

\* The rendered list and controls: the indices of the records listed, the
\* page-number buttons, whether Previous and Next are disabled, and the
\* totalPages the listeners of the buttons hold.
Pagination(shown, numbers, prevDisabled, nextDisabled, totalPages) ==
    [shown |-> shown, numbers |-> numbers, prevDisabled |-> prevDisabled,
     nextDisabled |-> nextDisabled, totalPages |-> totalPages, rendered |-> TRUE]

\* propertiesList and pagination are empty (createUI, showError)
NoPagination ==
    [shown |-> {}, numbers |-> {}, prevDisabled |-> TRUE, nextDisabled |-> TRUE,
     totalPages |-> 0, rendered |-> FALSE]

\* The pages of the panel as one value.
Pager(all, page, dom) == [all |-> all, page |-> page, dom |-> dom]

\* displayPropertiesPage(): lists the records of the current page and renders
\* the buttons
displayPropertiesPage(pg) ==
    LET startIndex == (pg.page - 1) * itemsPerPage
        endIndex == Min(startIndex + itemsPerPage, pg.all)
        totalPages == totalPagesOf(pg.all)
    IN [pg EXCEPT !.dom = Pagination(startIndex .. (endIndex - 1),
                                     pageNumbers(pg.page, totalPages),
                                     pg.page = 1, pg.page = totalPages, totalPages)]

\* displayProperties(properties) as to the pages, count being properties.length
displayPropertiesPages(pg, count) ==
    IF count = 0 THEN [pg EXCEPT !.dom = NoPagination]
    ELSE displayPropertiesPage([pg EXCEPT !.all = count, !.page = 1])

\* data-page of a button: "prev", "next", or "number" with the page it names
Button(kind, n) == [kind |-> kind, n |-> n]

\* the click listener of a page button
onPageButton(pg, button) ==
    LET moved ==
          IF button.kind = "prev"
          THEN IF pg.page > 1 THEN [pg EXCEPT !.page = @ - 1] ELSE pg
          ELSE IF button.kind = "next"
          THEN IF pg.page < pg.dom.totalPages THEN [pg EXCEPT !.page = @ + 1] ELSE pg
          ELSE [pg EXCEPT !.page = button.n]
    IN displayPropertiesPage(moved)

\* ------------------------------------------------------------------- state

vars == <<selectedFeature, currentBuildingId, buildingsWithInfo, smBuildingsWithInfo,
          showFloors, floorEntities, buildingPositions, activeBuilding,
          viewerEntities, panel, floorError, cache, pending, clicks, call,
          loaded, buildingIds, databaseBuildingIds, tileSetStyle, featureColor,
          floorModeActive, allProperties, currentPage, pagination>>

\* The state as one value, for the handlers below.
State ==
    [sel |-> selectedFeature, cur |-> currentBuildingId, bwi |-> buildingsWithInfo,
     smbwi |-> smBuildingsWithInfo, show |-> showFloors,
     w |-> World(floorEntities, buildingPositions, activeBuilding, viewerEntities),
     panel |-> panel, ferr |-> floorError, cache |-> cache,
     pending |-> pending, loaded |-> loaded, ids |-> buildingIds,
     dbIds |-> databaseBuildingIds, style |-> tileSetStyle, color |-> featureColor]

\* The fields of s written to the variables, the colours of features aside.
CommitFields(s) ==
    /\ selectedFeature' = s.sel
    /\ currentBuildingId' = s.cur
    /\ buildingsWithInfo' = s.bwi
    /\ smBuildingsWithInfo' = s.smbwi
    /\ showFloors' = s.show
    /\ floorEntities' = s.w.fe
    /\ buildingPositions' = s.w.bp
    /\ activeBuilding' = s.w.ab
    /\ viewerEntities' = s.w.vw
    /\ panel' = s.panel
    /\ floorError' = s.ferr
    /\ cache' = s.cache
    /\ pending' = s.pending
    /\ loaded' = s.loaded
    /\ buildingIds' = s.ids
    /\ databaseBuildingIds' = s.dbIds
    /\ tileSetStyle' = s.style

\* Spec follows the selection, the panel and the floors.  The colour of a
\* feature is written by the handlers and read by none of them, and Spec does
\* not keep it; SpecStyle does.
Commit(s) ==
    CommitFields(s)
       /\ UNCHANGED <<featureColor, floorModeActive, allProperties, currentPage, pagination>>

CommitStyle(s) ==
    CommitFields(s) /\ featureColor' = s.color
       /\ UNCHANGED <<floorModeActive, allProperties, currentPage, pagination>>

\* A request or a timer in flight.  kind is "pickFetch" (the fetch of
\* onLeftClick), "toggleFetch" / "genTimer" (toggleFloorModels),
\* "retryFetch" / "retryTimer" (retryFloorGeneration); id is the id fetched,
\* props the records a timer closure holds, pos and screen the positions a
\* closure holds.
Task(kind, id, props, pos, screen) ==
    [kind |-> kind, id |-> id, props |-> props, pos |-> pos, screen |-> screen]

RemoveAt(seq, i) == SubSeq(seq, 1, i - 1) \o SubSeq(seq, i + 1, Len(seq))

\* A function applied on its own: the function, its arguments
\* (the feature, the records, the cartographic height of the position the
\* geometry resolves to, the stored position handed to
\* extractDetailedGeometry), whether it has run, and what it gave: the
\* geometry, the boolean of generateFloorModels, what its floor loop
\* computed, and the id getFeatureBuildingId returned.
Call(fn, feat, stored, properties, anchorHeight) ==
    [fn |-> fn, feat |-> feat, stored |-> stored, properties |-> properties,
     anchorHeight |-> anchorHeight, done |-> FALSE, geometry |-> NullGeometry,
     ok |-> FALSE, floors |-> << >>, id |-> Null]
NoCall == Call("none", NoFeature, NoPositionInfo, << >>, 0)

\* Cesium.Color.X.withAlpha(a): the colour and its alpha in tenths
Color(c, a) == [c |-> c, a |-> a]
\* a feature whose color the program has not assigned
NoColor == Color("none", 10)

\* The ids loadBuildingIdsFromFile read from the dataset file before the page
\* made the selector.
DatasetFile == {IdL, IdE}

\* TileStyleManager.constructor and the page's setBuildingDataLoader; no style is set yet
InitStyle ==
    /\ databaseBuildingIds = {}
    /\ tileSetStyle = "none"
    /\ featureColor = [f \in TileFeatureNames |-> NoColor]

\* The Floor Mode button is off; InfoPanel.constructor and createUI
InitPage ==
    /\ floorModeActive = FALSE
    /\ allProperties = 0
    /\ currentPage = 1
    /\ pagination = NoPagination

Init ==
    /\ loaded = TRUE
    /\ buildingIds = DatasetFile
    /\ InitStyle
    /\ InitPage
    /\ selectedFeature = Null
    /\ currentBuildingId = Null
    /\ buildingsWithInfo = {}
    /\ smBuildingsWithInfo = {}
    /\ showFloors = FALSE
    /\ floorEntities = << >>
    /\ buildingPositions = << >>
    /\ activeBuilding = Null
    /\ viewerEntities = << >>
    /\ panel = Panel(FALSE, "initial", Null, FALSE, FALSE)
    /\ floorError = FALSE
    /\ cache = << >>
    /\ pending = << >>
    /\ clicks = 0
    /\ call = NoCall

\* ------------------------------------------------------- BuildingSelector
\* markBuildingHasInfo that restyles the tileset by the has-info set
markBuildingHasInfo_Restyles(s, buildingId) ==
    IF buildingId = Null THEN s
    ELSE [s EXCEPT !.bwi = @ \cup {buildingId}, !.smbwi = @ \cup {buildingId},
                   !.style = "noInfo"]

\* markBuildingHasInfo(buildingId), with the style manager set
markBuildingHasInfo(s, buildingId) ==
    IF buildingId = Null THEN s
    ELSE [s EXCEPT !.bwi = @ \cup {buildingId}, !.smbwi = @ \cup {buildingId}]

\* BuildingDataLoader.hasBuildingId(buildingId)
hasBuildingId(s, buildingId) ==
    IF ~s.loaded THEN TRUE
    ELSE IF buildingId = Null THEN FALSE
    ELSE buildingId \in s.ids

\* TileStyleManager.hasBuildingData(buildingId), the loader being set
hasBuildingData(s, buildingId) ==
    IF ~s.loaded THEN FALSE
    ELSE IF buildingId = Null THEN FALSE
    ELSE hasBuildingId(s, buildingId)

RECURSIVE ScanFrom(_, _)
\* the loop of clearSelection over the property names: the first string value
\* that is, or contains, a run of 16 digits
ScanFrom(feat, i) ==
    IF i > Len(PropertyOrder) THEN Null
    ELSE IF MatchEmbedded16(getProperty(feat, PropertyOrder[i])) # Null
         THEN MatchEmbedded16(getProperty(feat, PropertyOrder[i]))
         ELSE ScanFrom(feat, i + 1)

\* the colour clearSelection gives back to the feature it deselects
restoredColor(s, feat) ==
    LET buildingId == ScanFrom(feat, 1)
    IN IF buildingId # Null
       THEN IF hasBuildingData(s, buildingId) THEN Color("WHITE", 7)
                                              ELSE Color("GRAY", 5)
       ELSE Color("WHITE", 7)

clearSelection(s) ==
    IF s.sel = Null THEN s
    ELSE [s EXCEPT !.color[s.sel] = restoredColor(s, Feature(s.sel)), !.sel = Null]

selectFeature(s, f) == [s EXCEPT !.sel = f, !.color[f] = Color("YELLOW", 8)]

\* the error box with its Dismiss and Retry buttons (the message text is not kept)
showFloorGenerationError(s) == [s EXCEPT !.ferr = TRUE]

hideFloorGenerationError(s) == [s EXCEPT !.ferr = FALSE]

\* the floor count of createSimpleFloors and generateFallbackFloors when no
\* field gives one
DefaultSimpleFloors == 15

simpleTotalFloors(properties) ==
    LET firstProp == properties[1] IN
    IF firstProp.aant_bwlg_pnd # <<>> /\ firstProp.aant_bwlg_pnd[1] > 0
    THEN firstProp.aant_bwlg_pnd[1]
    ELSE IF firstProp.hoogste_bwlg_pnd # <<>> /\ firstProp.laagste_bwlg_pnd # <<>>
         THEN firstProp.hoogste_bwlg_pnd[1] - firstProp.laagste_bwlg_pnd[1] + 1
         ELSE DefaultSimpleFloors

\* createSimpleFloors(properties, position): box floors keyed by the pandid of
\* the first record, after removing all floors
createSimpleFloors(w, properties) ==
    LET w1 == removeAllFloorModels(w)
        buildingId == properties[1].pandid
        built == BuildFloors(w1.vw, buildingId, FALSE, 0,
                             simpleTotalFloors(properties), << >>)
    IN IF built.threw THEN [w1 EXCEPT !.vw = built.vw]
       ELSE [w1 EXCEPT !.vw = built.vw, !.fe = Put(w1.fe, buildingId, built.ents)]

\* generateFloors(properties): generateFloorModels for the selected feature,
\* and createSimpleFloors at the picked position when that fails
generateFloors(s, properties) ==
    IF s.sel = Null \/ ~HasRecords(properties) THEN s
    ELSE LET g == generateFloorModels(s.w, Feature(s.sel), properties)
         IN IF g.ok THEN [s EXCEPT !.w = g.w]
            ELSE [s EXCEPT !.w = createSimpleFloors(g.w, properties)]

\* onProperties that offers the floor toggle whatever the records are
onProperties_AlwaysToggle(s, properties) ==
    IF HasRecords(properties)
    THEN LET s1 == markBuildingHasInfo(s, s.cur)
             s2 == [s1 EXCEPT !.panel = displayProperties(@, properties)]
             s3 == IF s2.show THEN generateFloors(s2, properties) ELSE s2
         IN [s3 EXCEPT !.panel = addFloorToggleButton(@, s3.show)]
    ELSE [s EXCEPT !.panel = addFloorToggleButton(showError(@, "nodata", s.cur),
                                                  s.show)]

\* The second .then of onLeftClick: what the selector does with the records
\* that the fetch of a pick returned.
onProperties(s, properties) ==
    IF HasRecords(properties)
    THEN LET s1 == markBuildingHasInfo(s, s.cur)
             s2 == [s1 EXCEPT !.panel = displayProperties(@, properties)]
             s3 == IF s2.show THEN generateFloors(s2, properties) ELSE s2
         IN [s3 EXCEPT !.panel = addFloorToggleButton(@, s3.show)]
    ELSE [s EXCEPT !.panel = showError(@, "nodata", s.cur)]

\* The .catch of onLeftClick.
onPickError(s) == [s EXCEPT !.panel = showError(@, "error", Null)]

\* onLeftClick on a tile feature f, with the microtasks it queues: the
\* identification, and the fetch when the cache answers it.
onLeftClickFeature(s, f) ==
    LET s1 == selectFeature(clearSelection(s), f)
        pandId == getFeatureBuildingId(Feature(f))
    IN IF pandId = Null THEN onPickError(s1)
       ELSE LET s2 == [s1 EXCEPT !.cur = pandId]
            IN IF pandId \in DOMAIN s2.cache
               THEN onProperties(s2, s2.cache[pandId])
               ELSE [s2 EXCEPT !.pending =
                        Append(@, Task("pickFetch", pandId, << >>, NullPos, Null))]

\* onLeftClick on a floor entity: the selection is cleared and the handler returns
onLeftClickFloor(s) == clearSelection(s)

\* onLeftClickMiss that keeps the current building id
onLeftClickMiss_KeepsId(s) ==
    LET s1 == clearSelection(s)
    IN [s1 EXCEPT !.panel = hide(@), !.w = removeAllFloorModels(@)]

\* onLeftClick on nothing (or on an entity that is no floor)
onLeftClickMiss(s) ==
    LET s1 == clearSelection(s)
    IN [s1 EXCEPT !.panel = hide(@), !.w = removeAllFloorModels(@), !.cur = Null]

\* The .then of the re-fetch of toggleFloorModels(true).
onToggleProperties(s, properties, earthPosition, screenPosition) ==
    IF HasRecords(properties)
    THEN LET s0 == IF s.sel # Null
                   THEN [s EXCEPT !.color[s.sel] = Color("YELLOW", 9)]
                   ELSE s
             s1 == IF earthPosition # NullPos
                   THEN [s0 EXCEPT !.w = setBuildingPosition(@, s.cur,
                                   PositionInfo(earthPosition))]
                   ELSE s0
         IN [s1 EXCEPT !.pending =
                Append(@, Task("genTimer", Null, properties, NullPos, Null))]
    ELSE showFloorGenerationError(s)

\* toggleFloorModels(show); answer is what the scene answers the position lookups
toggleFloorModels(s, show, answer) ==
    LET s1 == hideFloorGenerationError([s EXCEPT !.show = show])
    IN IF s1.cur = Null THEN s1
       ELSE IF ~show
       THEN [s1 EXCEPT !.w = setFloorsVisible(@, s1.cur, FALSE),
                       !.color = IF s1.sel # Null
                                 THEN [@ EXCEPT ![s1.sel] = Color("YELLOW", 7)]
                                 ELSE @,
                       !.panel = updateFloorToggleButton(@, show)]
       ELSE IF s1.sel = Null
       THEN [showFloorGenerationError(s1)
                EXCEPT !.panel = updateFloorToggleButton(@, show)]
       ELSE
         LET screenPosition == getSelectedFeatureScreenPosition(s1.sel, answer)
             earthPosition == getEarthPositionFromScreen(screenPosition, answer, s1.cur)
             s2 == [s1 EXCEPT !.w = removeAllFloorModels(@),
                              !.panel = updateFloorToggleButton(@, show)]
         IN IF s2.cur \in DOMAIN s2.cache
            THEN onToggleProperties(s2, s2.cache[s2.cur], earthPosition, screenPosition)
            ELSE [s2 EXCEPT !.pending =
                     Append(@, Task("toggleFetch", s2.cur, << >>,
                                    earthPosition, screenPosition))]

\* The timer callback of toggleFloorModels.
onGenTimer(s, properties) ==
    LET g == generateFloorModels(s.w, Feature(s.sel), properties)
    IN IF g.ok THEN [s EXCEPT !.w = g.w]
       ELSE showFloorGenerationError([s EXCEPT !.w = g.w])

\* generateFallbackFloors(properties, position)
generateFallbackFloors(s, properties, position) ==
    LET buildingId == s.cur
        built == BuildFloors(s.w.vw, buildingId, FALSE, 0,
                             simpleTotalFloors(properties), << >>)
    IN IF built.threw
       THEN showFloorGenerationError([s EXCEPT !.w.vw = built.vw])
       ELSE LET s1 == [s EXCEPT !.w.vw = built.vw,
                                !.w.fe = Put(@, buildingId, built.ents)]
            IN IF CanAdd(s1.w.vw, OutlineEnt(buildingId))
               THEN [s1 EXCEPT !.w.vw = AddEntity(@, OutlineEnt(buildingId))]
               ELSE showFloorGenerationError(s1)

\* The .then of the fetch of retryFloorGeneration.
onRetryProperties(s, properties, position) ==
    IF HasRecords(properties)
    THEN [s EXCEPT !.pending =
             Append(@, Task("retryTimer", Null, properties, position, Null))]
    ELSE showFloorGenerationError(s)

\* The Retry button of the error box: the box is hidden, then retryFloorGeneration
retryFloorGeneration(s) ==
    LET s1 == hideFloorGenerationError(s)
    IN IF s1.cur = Null THEN s1
       ELSE LET position == getKnownBuildingPosition(s1.cur)
                s2 == [s1 EXCEPT !.w = setBuildingPosition(
                                 removeAllFloorModels(@), s1.cur,
                                 PositionInfo(position))]
            IN IF s2.cur \in DOMAIN s2.cache
               THEN onRetryProperties(s2, s2.cache[s2.cur], position)
               ELSE [s2 EXCEPT !.pending =
                        Append(@, Task("retryFetch", s2.cur, << >>, position, Null))]

\* The timer callback of retryFloorGeneration.
onRetryTimer(s, properties, position) ==
    LET g == generateFloorModels(s.w, Feature(s.sel), properties)
    IN IF g.ok THEN [s EXCEPT !.w = g.w]
       ELSE generateFallbackFloors([s EXCEPT !.w = g.w], properties, position)

\* getPropertiesByPandId answered by the server: the records are cached
Fetched(s, i) ==
    [s EXCEPT !.cache = Put(@, s.pending[i].id, RecordsOf(s.pending[i].id)),
              !.pending = RemoveAt(@, i)]

\* getPropertiesByPandId that caches an empty list when the request fails
Failed_CachesEmpty(s, i) ==
    [s EXCEPT !.cache = Put(@, s.pending[i].id, << >>), !.pending = RemoveAt(@, i)]

\* getPropertiesByPandId that drops the cache entry of the id when the request fails
Failed_Evicts(s, i) ==
    [s EXCEPT !.cache = Without(@, {s.pending[i].id}), !.pending = RemoveAt(@, i)]

\* getPropertiesByPandId failing (network error, non-OK status)
Failed(s, i) == [s EXCEPT !.pending = RemoveAt(@, i)]

\* ----------------------------------------------------------------- actions
Bounded(s) == Len(s.pending) <= MaxPending

\* a user event: one more click
Click == clicks < MaxClicks /\ clicks' = clicks + 1 /\ UNCHANGED call

PickFeature(f) ==
    /\ Click
    /\ Bounded(onLeftClickFeature(State, f))
    /\ Commit(onLeftClickFeature(State, f))

\* a floor entity can be picked when the viewer shows one
PickFloor ==
    /\ Click
    /\ \E e \in DOMAIN viewerEntities : e.t = "floor" /\ viewerEntities[e]
    /\ Commit(onLeftClickFloor(State))

PickMiss ==
    /\ Click
    /\ Commit(onLeftClickMiss(State))

PickFetchResolves(i) ==
    /\ pending[i].kind = "pickFetch"
    /\ Commit(onProperties(Fetched(State, i), RecordsOf(pending[i].id)))
    /\ UNCHANGED <<clicks, call>>

PickFetchFails(i) ==
    /\ pending[i].kind = "pickFetch"
    /\ Commit(onPickError(Failed(State, i)))
    /\ UNCHANGED <<clicks, call>>

\* the floor-toggle button of the panel: it asks for the opposite of its state
ToggleClick(answer) ==
    /\ Click
    /\ panel.visible /\ panel.controls
    /\ Bounded(toggleFloorModels(State, ~panel.active, answer))
    /\ Commit(toggleFloorModels(State, ~panel.active, answer))

ToggleFetchResolves(i) ==
    /\ pending[i].kind = "toggleFetch"
    /\ Commit(onToggleProperties(Fetched(State, i), RecordsOf(pending[i].id),
                                 pending[i].pos, pending[i].screen))
    /\ UNCHANGED <<clicks, call>>

ToggleFetchFails(i) ==
    /\ pending[i].kind = "toggleFetch"
    /\ Commit(showFloorGenerationError(Failed(State, i)))
    /\ UNCHANGED <<clicks, call>>

\* timers of equal delay fire in the order they were set
FirstTimer(i) ==
    \A j \in 1..(i - 1) : pending[j].kind \notin {"genTimer", "retryTimer"}

GenTimerFires(i) ==
    /\ pending[i].kind = "genTimer"
    /\ FirstTimer(i)
    /\ Commit(onGenTimer([State EXCEPT !.pending = RemoveAt(@, i)], pending[i].props))
    /\ UNCHANGED <<clicks, call>>

RetryClick ==
    /\ Click
    /\ floorError
    /\ Bounded(retryFloorGeneration(State))
    /\ Commit(retryFloorGeneration(State))

\* the click handler of the Floor Mode button: turning the mode off removes
\* the floors tracked by a FloorGenerator made for the occasion, and the
\* floor-generation error box
onFloorModeClick(s, active) ==
    IF ~active THEN s
    ELSE LET floorGenerator == World(<< >>, << >>, Null, s.w.vw)
         IN [s EXCEPT !.w.vw = removeAllFloorModels(floorGenerator).vw,
                      !.ferr = FALSE]

FloorModeClick ==
    /\ Click
    /\ floorModeActive' = ~floorModeActive
    /\ CommitFields(onFloorModeClick(State, floorModeActive))
    /\ UNCHANGED <<featureColor, allProperties, currentPage, pagination>>

DismissClick ==
    /\ Click
    /\ floorError
    /\ Commit(hideFloorGenerationError(State))

RetryFetchResolves(i) ==
    /\ pending[i].kind = "retryFetch"
    /\ Commit(onRetryProperties(Fetched(State, i), RecordsOf(pending[i].id),
                                pending[i].pos))
    /\ UNCHANGED <<clicks, call>>

RetryFetchFails(i) ==
    /\ pending[i].kind = "retryFetch"
    /\ Commit(showFloorGenerationError(Failed(State, i)))
    /\ UNCHANGED <<clicks, call>>

RetryTimerFires(i) ==
    /\ pending[i].kind = "retryTimer"
    /\ FirstTimer(i)
    /\ Commit(onRetryTimer([State EXCEPT !.pending = RemoveAt(@, i)],
                           pending[i].props, pending[i].pos))
    /\ UNCHANGED <<clicks, call>>

\* The event loop: a user event or a completion, one at a time.
Next ==
    \/ \E f \in FeatureNames : PickFeature(f)
    \/ PickFloor
    \/ PickMiss
    \/ \E i \in 1..Len(pending) : PickFetchResolves(i)
    \/ \E i \in 1..Len(pending) : PickFetchFails(i)
    \/ \E answer \in SceneAnswers : ToggleClick(answer)
    \/ \E i \in 1..Len(pending) : ToggleFetchResolves(i)
    \/ \E i \in 1..Len(pending) : ToggleFetchFails(i)
    \/ \E i \in 1..Len(pending) : GenTimerFires(i)
    \/ RetryClick
    \/ DismissClick
    \/ FloorModeClick
    \/ \E i \in 1..Len(pending) : RetryFetchResolves(i)
    \/ \E i \in 1..Len(pending) : RetryFetchFails(i)
    \/ \E i \in 1..Len(pending) : RetryTimerFires(i)

Spec == Init /\ [][Next]_vars

\* The data service answers the request of a pick.
PickAnswered ==
    \E i \in 1..Len(pending) : PickFetchResolves(i) \/ PickFetchFails(i)

\* The viewer of a user who only picks, with a data service that answers
\* every request: the promise of fetch settles, and its callbacks run.
NextLive ==
    \/ \E f \in FeatureNames : PickFeature(f)
    \/ PickMiss
    \/ PickAnswered

SpecLive == Init /\ [][NextLive]_vars /\ WF_vars(PickAnswered)

\* ------------------------------------------ the floor generator on its own
\* Records in a list handed to generateFloorModels.
MaxRecords == 3

\* The feature shapes extractDetailedGeometry is applied to: with or without
\* content, model matrix and bounding spheres, with a "height" property that
\* is absent, zero, negative or positive, and a bounding sphere of radius 0
\* or 10.
ShapeFeatures ==
    {[BaseFeature EXCEPT !.name = "fX", !.props["id"] = Val("plain", "bldg_1"),
                         !.content = c, !.model = m, !.primBS = p, !.tileBS = t,
                         !.contentBS = b, !.height = h, !.radius = r] :
        c \in BOOLEAN, m \in BOOLEAN, p \in BOOLEAN, t \in BOOLEAN, b \in BOOLEAN,
        h \in {<<>>, <<0>>, <<-6>>, <<30>>}, r \in {0, 10}}
    \cup {NoFeature}

\* The stored positions handed to extractDetailedGeometry.
StoredChoices ==
    {NoPositionInfo, PositionInfo(Pos("globe", "fX")), PositionInfo(DefaultPosition)}

\* The features generateFloorModels is applied to: a plain building, one with
\* a positive, one with a negative "height" property, one whose bounding
\* sphere has radius 0, the L-shaped building, a feature with no id and a
\* feature without content.
PlainFeature ==
    [BaseFeature EXCEPT !.name = "fX", !.props["id"] = Val("plain", "bldg_1")]
GenerateFeatures ==
    {PlainFeature,
     [PlainFeature EXCEPT !.height = <<30>>],
     [PlainFeature EXCEPT !.height = <<-6>>],
     [PlainFeature EXCEPT !.radius = 0],
     [PlainFeature EXCEPT !.props["id"] = Val("exact", IdL)],
     [PlainFeature EXCEPT !.props["id"] = NoVal],
     [PlainFeature EXCEPT !.content = FALSE]}

\* The record lists: the first record carries the floor-count fields, every
\* record a floor index or none.
FirstRecords ==
    {Rec(IdA, a, h, l, v) : a \in {<<>>, <<0>>, <<2>>, <<4>>}, h \in {<<>>, <<1>>},
                            l \in {<<>>, <<0>>, <<2>>}, v \in {<<>>, <<0>>, <<1>>}}
MoreRecords == {Rec(IdA, <<>>, <<>>, <<>>, v) : v \in {<<>>, <<0>>, <<1>>}}
RecordLists ==
    {<< >>} \cup
    UNION {{<<first>> \o rest : first \in FirstRecords, rest \in [1..k -> MoreRecords]} :
             k \in 0..(MaxRecords - 1)}

InitFloors ==
    /\ call \in
         {Call("extractDetailedGeometry", feat, stored, << >>, 0) :
            feat \in ShapeFeatures, stored \in StoredChoices}
         \cup
         {Call("generateFloorModels", feat, stored, properties, anchorHeight) :
            feat \in GenerateFeatures,
            stored \in {NoPositionInfo, PositionInfo(Pos("globe", "fX"))},
            properties \in RecordLists, anchorHeight \in {0, 12}}
    /\ loaded = FALSE
    /\ buildingIds = {}
    /\ InitStyle
    /\ InitPage
    /\ selectedFeature = Null
    /\ currentBuildingId = Null
    /\ buildingsWithInfo = {}
    /\ smBuildingsWithInfo = {}
    /\ showFloors = FALSE
    /\ floorEntities = << >>
    /\ buildingPositions =
         IF call.fn = "generateFloorModels" /\ call.stored # NoPositionInfo
            /\ extractBuildingId(call.feat) # Null
         THEN Put(<< >>, extractBuildingId(call.feat), call.stored)
         ELSE << >>
    /\ activeBuilding = Null
    /\ viewerEntities = << >>
    /\ panel = Panel(FALSE, "initial", Null, FALSE, FALSE)
    /\ floorError = FALSE
    /\ cache = << >>
    /\ pending = << >>
    /\ clicks = 0

\* extractDetailedGeometry(feature, storedPosition) applied to the drawn inputs
ExtractGeometryCall ==
    /\ call.fn = "extractDetailedGeometry" /\ ~call.done
    /\ call' = [call EXCEPT !.done = TRUE,
                            !.geometry = extractDetailedGeometry(call.feat, call.stored)]
    /\ UNCHANGED <<selectedFeature, currentBuildingId, buildingsWithInfo,
                   smBuildingsWithInfo, showFloors, floorEntities, buildingPositions,
                   activeBuilding, viewerEntities, panel, floorError, cache,
                   pending, clicks, loaded, buildingIds, databaseBuildingIds,
                   tileSetStyle, featureColor, floorModeActive,
                   allProperties, currentPage, pagination>>

\* generateFloorModels(buildingFeature, properties) applied to the drawn inputs
GenerateFloorsCall ==
    /\ call.fn = "generateFloorModels" /\ ~call.done
    /\ LET w == World(floorEntities, buildingPositions, activeBuilding, viewerEntities)
           r == generateFloorModels(w, call.feat, call.properties)
           geometry == extractDetailedGeometry(
                           call.feat, getBuildingPosition(w, extractBuildingId(call.feat)))
           floorInfo == getDetailedFloorInfo(call.properties)
       IN /\ call' = [call EXCEPT
                        !.done = TRUE, !.ok = r.ok, !.geometry = geometry,
                        !.floors = IF r.ok
                                   THEN FloorLoop(call.anchorHeight, geometry.height,
                                                  floorInfo.totalFloors, call.properties)
                                   ELSE << >>]
          /\ floorEntities' = r.w.fe
          /\ buildingPositions' = r.w.bp
          /\ activeBuilding' = r.w.ab
          /\ viewerEntities' = r.w.vw
    /\ UNCHANGED <<selectedFeature, currentBuildingId, buildingsWithInfo,
                   smBuildingsWithInfo, showFloors, panel, floorError, cache,
                   pending, clicks, loaded, buildingIds, databaseBuildingIds,
                   tileSetStyle, featureColor, floorModeActive,
                   allProperties, currentPage, pagination>>

NextFloors == ExtractGeometryCall \/ GenerateFloorsCall

SpecFloors == InitFloors /\ [][NextFloors]_vars

\* ------------------------------------------------ the identifier on its own
\* The values a property of a drawn feature takes.
IdValues ==
    {NoVal, Val("exact", IdA), Val("exact", IdL), Val("embedded", IdE),
     Val("plain", "bldg_9")}

\* The features getFeatureBuildingId is applied to: every combination of
\* values of the properties PANDID, id, gml:id and name and of the batch
\* table entry identificatie.
IdentifierFeatures ==
    {[BaseFeature EXCEPT !.name = "fX", !.props["PANDID"] = a, !.props["id"] = b,
                         !.props["gml:id"] = c, !.props["name"] = d,
                         !.batch["identificatie"] = e] :
        a \in IdValues, b \in IdValues, c \in IdValues, d \in IdValues, e \in IdValues}

InitIdentifier ==
    /\ call \in {Call("getFeatureBuildingId", feat, NoPositionInfo, << >>, 0) :
                   feat \in IdentifierFeatures}
    /\ loaded = FALSE
    /\ buildingIds = {}
    /\ InitStyle
    /\ InitPage
    /\ selectedFeature = Null
    /\ currentBuildingId = Null
    /\ buildingsWithInfo = {}
    /\ smBuildingsWithInfo = {}
    /\ showFloors = FALSE
    /\ floorEntities = << >>
    /\ buildingPositions = << >>
    /\ activeBuilding = Null
    /\ viewerEntities = << >>
    /\ panel = Panel(FALSE, "initial", Null, FALSE, FALSE)
    /\ floorError = FALSE
    /\ cache = << >>
    /\ pending = << >>
    /\ clicks = 0

\* getFeatureBuildingId(feature) applied to the drawn feature; it assigns no
\* field of the selector
IdentifyCall ==
    /\ call.fn = "getFeatureBuildingId" /\ ~call.done
    /\ call' = [call EXCEPT !.done = TRUE, !.id = getFeatureBuildingId(call.feat)]
    /\ UNCHANGED <<selectedFeature, currentBuildingId, buildingsWithInfo,
                   smBuildingsWithInfo, showFloors, floorEntities, buildingPositions,
                   activeBuilding, viewerEntities, panel, floorError, cache,
                   pending, clicks, loaded, buildingIds, databaseBuildingIds,
                   tileSetStyle, featureColor, floorModeActive,
                   allProperties, currentPage, pagination>>

NextIdentifier == IdentifyCall

SpecIdentifier == InitIdentifier /\ [][NextIdentifier]_vars

\* ---------------------------------------------- the ingestion of records
\* A field of a line of the dataset file is a text: a sequence of characters.
Digits == <<"0", "1", "2", "3", "4", "5", "6", "7", "8", "9">>
IsDigit(c) == \E d \in 1..10 : Digits[d] = c
DigitValue(c) == (CHOOSE d \in 1..10 : Digits[d] = c) - 1

\* a number, or NaN
Num(n) == [nan |-> FALSE, n |-> n]
NaN == [nan |-> TRUE, n |-> 0]

RECURSIVE parseDigits(_, _, _)
\* the digits of text from position i on, read into acc until a character
\* that is no digit
parseDigits(text, i, acc) ==
    IF i > Len(text) \/ ~IsDigit(text[i]) THEN acc
    ELSE parseDigits(text, i + 1, acc * 10 + DigitValue(text[i]))

RECURSIVE skipSpaces(_, _)
skipSpaces(text, i) ==
    IF i <= Len(text) /\ text[i] = " " THEN skipSpaces(text, i + 1) ELSE i

\* parseInt(text): leading blanks, a sign, then digits up to the first
\* character that is none; NaN when there is no digit
parseInt(text) ==
    LET i == skipSpaces(text, 1)
        signed == i <= Len(text) /\ text[i] \in {"-", "+"}
        j == IF signed THEN i + 1 ELSE i
    IN IF j > Len(text) \/ ~IsDigit(text[j]) THEN NaN
       ELSE IF signed /\ text[i] = "-" THEN Num(0 - parseDigits(text, j, 0))
       ELSE Num(parseDigits(text, j, 0))

\* `v || null` of a number v: null (no value) when v is NaN or 0
orNull(v) == IF v.nan \/ v.n = 0 THEN << >> ELSE <<v.n>>

\* parseInt(text) || null
parseIntOrNull(text) == orNull(parseInt(text))

\* A line of the dataset file: the pandid and the four floor fields as texts.
Line(pandid, vb0, laag, hoog, aant) ==
    [pandid |-> pandid, bwlg_vb0 |-> vb0, laagste_bwlg_pnd |-> laag,
     hoogste_bwlg_pnd |-> hoog, aant_bwlg_pnd |-> aant]

\* importData: the values of the INSERT for a line, which the server returns
\* as they are stored
importData(line) ==
    Rec(line.pandid, parseIntOrNull(line.aant_bwlg_pnd),
        parseIntOrNull(line.hoogste_bwlg_pnd), parseIntOrNull(line.laagste_bwlg_pnd),
        parseIntOrNull(line.bwlg_vb0))

\* the object the file fallback of GET /api/woz/:pandid pushes for a line
fileFallback(line) ==
    Rec(line.pandid, parseIntOrNull(line.aant_bwlg_pnd),
        parseIntOrNull(line.hoogste_bwlg_pnd), parseIntOrNull(line.laagste_bwlg_pnd),
        parseIntOrNull(line.bwlg_vb0))

\* The texts a floor field is drawn from.
FieldTexts ==
    {<< >>, <<"0">>, <<"2">>, <<"1", "0">>, <<"-", "1">>, <<" ", "3">>, <<"n">>}

IngestLines ==
    {Line(IdA, a, b, c, d) : a \in FieldTexts, b \in FieldTexts,
                             c \in {<< >>, <<"0">>, <<"2">>}, d \in {<< >>, <<"2">>}}

IngestCall(line) ==
    [fn |-> "ingest", line |-> line, done |-> FALSE, by |-> "none",
     row |-> Rec(Null, << >>, << >>, << >>, << >>), onFloor |-> << >>]

InitIngest ==
    /\ call \in {IngestCall(line) : line \in IngestLines}
    /\ loaded = FALSE
    /\ buildingIds = {}
    /\ InitStyle
    /\ InitPage
    /\ selectedFeature = Null
    /\ currentBuildingId = Null
    /\ buildingsWithInfo = {}
    /\ smBuildingsWithInfo = {}
    /\ showFloors = FALSE
    /\ floorEntities = << >>
    /\ buildingPositions = << >>
    /\ activeBuilding = Null
    /\ viewerEntities = << >>
    /\ panel = Panel(FALSE, "initial", Null, FALSE, FALSE)
    /\ floorError = FALSE
    /\ cache = << >>
    /\ pending = << >>
    /\ clicks = 0

\* getFeatureBuildingId(feature) applied to the drawn feature; it assigns no
\* field of the selector

\* The row is delivered for the line, and listed on the floors 0..2 by
\* getPropertiesOnFloor.
Delivered(row, by) ==
    /\ call' = [call EXCEPT !.done = TRUE, !.by = by, !.row = row,
                   !.onFloor = [n \in 1..3 |-> getPropertiesOnFloor(<<row>>, n - 1)]]
    /\ UNCHANGED <<selectedFeature, currentBuildingId, buildingsWithInfo,
                   smBuildingsWithInfo, showFloors, floorEntities, buildingPositions,
                   activeBuilding, viewerEntities, panel, floorError, cache,
                   pending, clicks, loaded, buildingIds, databaseBuildingIds,
                   tileSetStyle, featureColor, floorModeActive,
                   allProperties, currentPage, pagination>>

\* the line is imported into the database and served from there
ImportCall ==
    /\ call.fn = "ingest" /\ ~call.done
    /\ Delivered(importData(call.line), "import")

\* the line is served by the file fallback of GET /api/woz/:pandid
FallbackCall ==
    /\ call.fn = "ingest" /\ ~call.done
    /\ Delivered(fileFallback(call.line), "fallback")

NextIngest == ImportCall \/ FallbackCall

SpecIngest == InitIngest /\ [][NextIngest]_vars

\* ------------------------------------------------ the pages of the panel
MaxPageClicks == 5

\* The lengths of the lists displayProperties is given.
PropertyCounts == {0, 1, 10, 11, 25, 35, 61}

CommitPager(pg) ==
    /\ allProperties' = pg.all
    /\ currentPage' = pg.page
    /\ pagination' = pg.dom
    /\ clicks' = clicks + 1
    /\ UNCHANGED <<selectedFeature, currentBuildingId, buildingsWithInfo,
                   smBuildingsWithInfo, showFloors, floorEntities, buildingPositions,
                   activeBuilding, viewerEntities, panel, floorError, cache,
                   pending, call, loaded, buildingIds, databaseBuildingIds,
                   tileSetStyle, featureColor, floorModeActive>>

DisplayProperties(count) ==
    /\ clicks < MaxPageClicks
    /\ CommitPager(displayPropertiesPages(Pager(allProperties, currentPage, pagination), count))

\* a click on Previous or Next; a disabled button fires no click
PrevNextClick(kind) ==
    /\ clicks < MaxPageClicks
    /\ pagination.rendered
    /\ IF kind = "prev" THEN ~pagination.prevDisabled ELSE ~pagination.nextDisabled
    /\ CommitPager(onPageButton(Pager(allProperties, currentPage, pagination), Button(kind, 0)))

\* a click on one of the page-number buttons
PageNumberClick(page) ==
    /\ clicks < MaxPageClicks
    /\ pagination.rendered
    /\ page \in pagination.numbers
    /\ CommitPager(onPageButton(Pager(allProperties, currentPage, pagination), Button("number", page)))

InitPages ==
    /\ call = NoCall
    /\ loaded = FALSE
    /\ buildingIds = {}
    /\ InitStyle
    /\ InitPage
    /\ selectedFeature = Null
    /\ currentBuildingId = Null
    /\ buildingsWithInfo = {}
    /\ smBuildingsWithInfo = {}
    /\ showFloors = FALSE
    /\ floorEntities = << >>
    /\ buildingPositions = << >>
    /\ activeBuilding = Null
    /\ viewerEntities = << >>
    /\ panel = Panel(FALSE, "initial", Null, FALSE, FALSE)
    /\ floorError = FALSE
    /\ cache = << >>
    /\ pending = << >>
    /\ clicks = 0

\* getFeatureBuildingId(feature) applied to the drawn feature; it assigns no
\* field of the selector

NextPages ==
    \/ \E count \in PropertyCounts : DisplayProperties(count)
    \/ \E kind \in {"prev", "next"} : PrevNextClick(kind)
    \/ \E page \in 1..totalPagesOf(61) + 4 : PageNumberClick(page)

SpecPages == InitPages /\ [][NextPages]_vars

\* ------------------------------------------- the dataset and the styles
\* loadBuildingIdsFromFile answered with a list of ids that merges it into the set
onBuildingIds_Merge(s, ids) == [s EXCEPT !.ids = @ \cup ids, !.loaded = TRUE]

\* loadBuildingIdsFromFile answered with a list of ids
onBuildingIds(s, ids) == [s EXCEPT !.ids = ids, !.loaded = TRUE]

\* TileStyleManager.setDatabaseBuildingIds(buildingIds)
setDatabaseBuildingIds(s, ids) == [s EXCEPT !.dbIds = ids]

\* the two colours of applyBuildingFilter
inDatasetColor == Color("WHITE", 9)
notInDatasetColor == Color("GRAY", 6)

\* evaluateColor of the style applyBuildingFilter sets, on a feature
filterColor(s, feat) ==
    LET buildingId == ScanFrom(feat, 1)
    IN IF buildingId # Null /\ hasBuildingId(s, buildingId)
       THEN inDatasetColor ELSE notInDatasetColor

\* TileStyleManager.applyBuildingFilter(), the tilesets being there
applyBuildingFilter(s) ==
    IF ~s.loaded THEN s ELSE [s EXCEPT !.style = "buildingFilter"]

\* updateBuildingsWithInfo(pandIds)
updateBuildingsWithInfo(s, pandIds) == [s EXCEPT !.bwi = pandIds, !.smbwi = pandIds]

\* loadFeatureMapping once getAllPandIds has answered (an empty list on an error)
onPandIds(s, pandIds) == IF pandIds = {} THEN s ELSE [s EXCEPT !.smbwi = pandIds]

\* setStyleManager(styleManager), the page's style manager handed over again
setStyleManager(s) == [s EXCEPT !.smbwi = @ \cup s.bwi]

\* The features picked under SpecStyle: one of the dataset with records, one
\* outside it, one without an id, and one whose first digits are not its id.
StylePicks == {"fL", "fA", "fN", "fM"}

\* What the dataset file can hold at a load.
DatasetFiles == {{IdA}, DatasetFile}

\* The selector is made once the page's load has settled, with the ids of the
\* file or, after a failed load, with none; its init() has asked for the
\* feature mapping.
InitDataset ==
    /\ \E ok \in BOOLEAN :
          /\ loaded = ok
          /\ buildingIds = IF ok THEN DatasetFile ELSE {}
    /\ InitStyle
    /\ InitPage
    /\ selectedFeature = Null
    /\ currentBuildingId = Null
    /\ buildingsWithInfo = {}
    /\ smBuildingsWithInfo = {}
    /\ showFloors = FALSE
    /\ floorEntities = << >>
    /\ buildingPositions = << >>
    /\ activeBuilding = Null
    /\ viewerEntities = << >>
    /\ panel = Panel(FALSE, "initial", Null, FALSE, FALSE)
    /\ floorError = FALSE
    /\ cache = << >>
    /\ pending = << Task("mappingFetch", Null, << >>, NullPos, Null) >>
    /\ clicks = 0
    /\ call = NoCall

\* one more operation on the selector, the loader or the style manager
StyleOp == clicks < MaxStyleOps /\ clicks' = clicks + 1 /\ UNCHANGED call

StylePick(f) ==
    /\ StyleOp
    /\ Bounded(onLeftClickFeature(State, f))
    /\ CommitStyle(onLeftClickFeature(State, f))

StyleMiss ==
    /\ StyleOp
    /\ CommitStyle(onLeftClickMiss(State))

StyleFetchResolves(i) ==
    /\ pending[i].kind = "pickFetch"
    /\ CommitStyle(onProperties(Fetched(State, i), RecordsOf(pending[i].id)))
    /\ UNCHANGED <<clicks, call>>

StyleFetchFails(i) ==
    /\ pending[i].kind = "pickFetch"
    /\ CommitStyle(onPickError(Failed(State, i)))
    /\ UNCHANGED <<clicks, call>>

\* loadBuildingIdsFromFile(filePath) up to its fetch
LoadStart ==
    /\ StyleOp
    /\ Len(pending) < MaxPending
    /\ CommitStyle([State EXCEPT !.pending =
                      Append(@, Task("loadIds", Null, << >>, NullPos, Null))])

LoadResolves(i, ids) ==
    /\ pending[i].kind = "loadIds"
    /\ CommitStyle(onBuildingIds([State EXCEPT !.pending = RemoveAt(@, i)], ids))
    /\ UNCHANGED <<clicks, call>>

\* the fetch fails, the status is not OK or the answer holds no list: false
LoadFails(i) ==
    /\ pending[i].kind = "loadIds"
    /\ CommitStyle([State EXCEPT !.pending = RemoveAt(@, i)])
    /\ UNCHANGED <<clicks, call>>

MappingResolves(i, pandIds) ==
    /\ pending[i].kind = "mappingFetch"
    /\ CommitStyle(onPandIds([State EXCEPT !.pending = RemoveAt(@, i)], pandIds))
    /\ UNCHANGED <<clicks, call>>

SetDatabaseBuildingIds(ids) ==
    /\ StyleOp
    /\ CommitStyle(setDatabaseBuildingIds(State, ids))

ApplyBuildingFilter ==
    /\ StyleOp
    /\ CommitStyle(applyBuildingFilter(State))

MarkBuildingHasInfo(buildingId) ==
    /\ StyleOp
    /\ CommitStyle(markBuildingHasInfo(State, buildingId))

UpdateBuildingsWithInfo(pandIds) ==
    /\ StyleOp
    /\ CommitStyle(updateBuildingsWithInfo(State, pandIds))

SetStyleManager ==
    /\ StyleOp
    /\ CommitStyle(setStyleManager(State))

NextStyle ==
    \/ \E f \in StylePicks : StylePick(f)
    \/ StyleMiss
    \/ \E i \in 1..Len(pending) : StyleFetchResolves(i)
    \/ \E i \in 1..Len(pending) : StyleFetchFails(i)
    \/ LoadStart
    \/ \E i \in 1..Len(pending) : \E ids \in DatasetFiles : LoadResolves(i, ids)
    \/ \E i \in 1..Len(pending) : LoadFails(i)
    \/ \E i \in 1..Len(pending) : \E pandIds \in {{}, {IdL, IdA}} : MappingResolves(i, pandIds)
    \/ \E ids \in DatasetFiles : SetDatabaseBuildingIds(ids)
    \/ ApplyBuildingFilter
    \/ \E buildingId \in {Null, IdE} : MarkBuildingHasInfo(buildingId)
    \/ UpdateBuildingsWithInfo({IdA})
    \/ SetStyleManager

SpecStyle == InitDataset /\ [][NextStyle]_vars

\* ------------------------------------------------------------------ claims
\* The fetch of pending[i] was started by a pick of another building than the
\* one the selector holds now: a later pick has selected a building Y.
StaleFetch(i) ==
    /\ pending[i].kind = "pickFetch"
    /\ currentBuildingId # Null
    /\ currentBuildingId # pending[i].id

\* C1: when the fetch started by a pick of building X resolves after a later
\* pick has selected building Y, its result is discarded: the panel, the
\* has-info set and the floors are left as they are (so no toggle control is
\* added and no floors are generated).
C1_StaleResultDiscarded ==
    [][\A i \in 1..Len(pending) :
          (StaleFetch(i) /\ PickFetchResolves(i)) =>
              /\ panel' = panel
              /\ buildingsWithInfo' = buildingsWithInfo
              /\ floorEntities' = floorEntities]_vars

\* C2: the floorEntities map holds the floors of at most one building id.
C2_SingleActiveBuilding == Cardinality(DOMAIN floorEntities) <= 1

\* C3: immediately after a pick that hits neither a tile feature nor a floor
\* entity, selectedFeature and currentBuildingId are null, the floorEntities
\* map is empty and the info panel is hidden.
C3_MissClearsSelection ==
    [][PickMiss =>
          /\ selectedFeature' = Null
          /\ currentBuildingId' = Null
          /\ floorEntities' = << >>
          /\ ~panel'.visible]_vars

\* A miss has cleared a selection whose records were displayed and whose
\* floors had been generated (the outline of the floors stays in the viewer).
C3_Witness ==
    /\ selectedFeature = Null
    /\ currentBuildingId = Null
    /\ floorEntities = << >>
    /\ ~panel.visible
    /\ panel.kind = "props"
    /\ OutlineEnt(IdA) \in DOMAIN viewerEntities

\* The step handles a failure: the picked feature cannot be identified, the
\* fetch of a pick fails or returns no records, or the floor generation of a
\* toggle fails and shows its error box.
FailureStep ==
    \/ \E f \in FeatureNames :
          PickFeature(f) /\ getFeatureBuildingId(Feature(f)) = Null
    \/ \E i \in 1..Len(pending) : PickFetchFails(i)
    \/ \E i \in 1..Len(pending) :
          PickFetchResolves(i) /\ ~HasRecords(RecordsOf(pending[i].id))
    \/ \E i \in 1..Len(pending) : ToggleFetchFails(i)
    \/ \E i \in 1..Len(pending) : GenTimerFires(i) /\ ~floorError /\ floorError'

\* C4: every failure returns the controller to Idle: no selected feature and
\* no current building id.
C4_FailureReturnsToIdle ==
    [][FailureStep => (selectedFeature' = Null /\ currentBuildingId' = Null)]_vars

\* No property of the feature (own or in the batch table), nor its primitive
\* id or content url, holds a run of 16 digits.
NoPattern(feat) ==
    /\ \A n \in PropNames : MatchEmbedded16(feat.props[n]) = Null
    /\ \A n \in PropNames : MatchEmbedded16(feat.batch[n]) = Null
    /\ MatchEmbedded16(feat.primId) = Null
    /\ MatchEmbedded16(feat.url) = Null

\* The features whose properties are any mix of absent values and strings
\* without a run of 16 digits.
PatternlessFeatures ==
    {[BaseFeature EXCEPT !.name = "fX", !.props = p] :
        p \in [PropNames -> {NoVal, Val("plain", "bldg_9")}]}

\* Those of them that getFeatureBuildingId gives an id.
PatternlessIdentified ==
    {feat \in PatternlessFeatures : getFeatureBuildingId(feat) # Null}

\* C5: for a picked feature with no 16-digit pattern in any property,
\* getFeatureBuildingId gives null, the pick starts no fetch and consults no
\* cached records, and the panel shows the error message.
C5_UnidentifiedPickFetchesNothing ==
    [][\A f \in FeatureNames :
          (PickFeature(f) /\ NoPattern(Feature(f))) =>
              /\ getFeatureBuildingId(Feature(f)) = Null
              /\ PatternlessIdentified = {}
              /\ pending' = pending
              /\ cache' = cache
              /\ panel'.visible
              /\ panel'.kind = "error"
              /\ ~panel'.controls]_vars

\* The unidentifiable feature has been picked: it is selected, nothing is in
\* flight and the panel shows the error.
C5_Witness ==
    /\ selectedFeature = "fN"
    /\ NoPattern(Feature("fN"))
    /\ pending = << >>
    /\ panel.visible
    /\ panel.kind = "error"

\* The step hands the selector an empty record list for a pick: the answer
\* of the server, or the answer the cache holds.
EmptyResultStep ==
    \/ \E i \in 1..Len(pending) :
          PickFetchResolves(i) /\ RecordsOf(pending[i].id) = << >>
    \/ \E f \in FeatureNames :
          /\ PickFeature(f)
          /\ getFeatureBuildingId(Feature(f)) \in DOMAIN cache
          /\ cache[getFeatureBuildingId(Feature(f))] = << >>

\* C6: when the fetch of a pick returns an empty list, the panel shows the
\* no-data message, holds no floor-toggle control afterwards, and no id is
\* added to the has-info sets.
C6_NoDataOffersNoToggle ==
    [][EmptyResultStep =>
          /\ panel'.visible
          /\ panel'.kind = "nodata"
          /\ ~panel'.controls
          /\ buildingsWithInfo' = buildingsWithInfo
          /\ smBuildingsWithInfo' = smBuildingsWithInfo]_vars

\* The building without records is selected, its empty answer has arrived
\* and the panel shows the no-data message for it.
C6_Witness ==
    /\ selectedFeature = "fE"
    /\ IdE \in DOMAIN cache
    /\ cache[IdE] = << >>
    /\ panel.visible
    /\ panel.kind = "nodata"
    /\ panel.subject = IdE
    /\ ~panel.controls
    /\ IdE \notin buildingsWithInfo

\* C7: an id is in the has-info set only when a fetch of the records of that
\* same id has returned a non-empty list (the cache keeps every list a fetch
\* has returned).
C7_MarkedOnlyWithOwnRecords ==
    \A id \in buildingsWithInfo : id \in DOMAIN cache /\ HasRecords(cache[id])

\* The floors that a toggle-on generated for the selected feature are in the
\* map and nothing is in flight; shown says whether the viewer shows them.
FloorsOfSelection(shown) ==
    /\ pending = << >>
    /\ selectedFeature # Null
    /\ extractBuildingId(Feature(selectedFeature)) \in DOMAIN floorEntities
    /\ \A e \in Range(floorEntities[extractBuildingId(Feature(selectedFeature))]) :
          e \in DOMAIN viewerEntities /\ viewerEntities[e] = shown

\* C8: toggling the floors on again, after a toggle-off that hid the floors
\* of the selection, resolves no position and reuses the floors: the map of
\* floors, the viewer's entities but for their show flag, and the stored
\* positions are what they were.
C8_ToggleOnReusesFloors ==
    [][((\E answer \in SceneAnswers : ToggleClick(answer))
          /\ ~showFloors /\ showFloors' /\ FloorsOfSelection(FALSE)) =>
              /\ floorEntities' = floorEntities
              /\ DOMAIN viewerEntities' = DOMAIN viewerEntities
              /\ buildingPositions' = buildingPositions]_vars

\* C9: toggleFloorModels(false), after a toggle-on has generated the floors of
\* the selected building, leaves each of those floors in the map and in the
\* viewer, hidden.
C9_ToggleOffHidesFloors ==
    [][((\E answer \in SceneAnswers : ToggleClick(answer))
          /\ showFloors /\ ~showFloors' /\ FloorsOfSelection(TRUE)) =>
              /\ floorEntities' = floorEntities
              /\ \A e \in Range(floorEntities[extractBuildingId(Feature(selectedFeature))]) :
                    e \in DOMAIN viewerEntities' /\ ~viewerEntities'[e]]_vars

\* The keys setFloorsVisible can be called with: the ids of the model, the
\* keys of the map, null.
VisibilityKeys == BuildingIds \cup DOMAIN floorEntities \cup {Null}

\* the number of floor entities the map holds
FloorCount(w) == Cardinality(UNION {Range(w.fe[k]) : k \in DOMAIN w.fe})

\* C10: setFloorsVisible(id, v) twice leaves what one call leaves, and for any
\* id and v the number of floor entities in the map and the entities of the
\* viewer are the same before and after the call.
C10_SetFloorsVisibleIdempotent ==
    \A id \in VisibilityKeys, v \in BOOLEAN :
        LET w == World(floorEntities, buildingPositions, activeBuilding, viewerEntities)
            once == setFloorsVisible(w, id, v)
        IN /\ setFloorsVisible(once, id, v) = once
           /\ once.fe = w.fe
           /\ FloorCount(once) = FloorCount(w)
           /\ DOMAIN once.vw = DOMAIN w.vw

\* A toggle-off has called setFloorsVisible on floors that were shown: the
\* floors of the current building are in the map and in the viewer, hidden.
C10_Witness ==
    /\ ~showFloors
    /\ currentBuildingId \in DOMAIN floorEntities
    /\ floorEntities[currentBuildingId] # << >>
    /\ \A e \in Range(floorEntities[currentBuildingId]) :
          e \in DOMAIN viewerEntities /\ ~viewerEntities[e]

\* C11: removing floors destroys and evicts them.  After a pick that hits
\* nothing (removeAllFloorModels) the floor map is empty and the viewer holds
\* no floor entity and no sub-volume of a compound floor.
C11_RemoveEvictsFloors ==
    [][PickMiss =>
         /\ floorEntities' = << >>
         /\ \A e \in DOMAIN viewerEntities' : e.t \notin {"floor", "part"}]_vars

\* C12: position resolution never fails.  For every feature (null, without
\* content or without bounding volume included) and every stored position
\* (none included) extractDetailedGeometry returns a geometry, never null.
C12_GeometryNeverFails ==
    (call.fn = "extractDetailedGeometry" /\ call.done) => call.geometry # NullGeometry

\* The first of the four feature-derived sources that yields a position:
\* instance transform, feature bounding volume, tile bounding volume, content
\* bounding volume.
FeatureDerived(feat) ==
    IF feat.name = Null \/ ~feat.content THEN NullPos
    ELSE IF feat.model THEN Pos("model", feat.name)
    ELSE IF feat.primBS THEN Pos("prim", feat.name)
    ELSE IF feat.tileBS THEN Pos("tile", feat.name)
    ELSE IF feat.contentBS THEN Pos("content", feat.name)
    ELSE NullPos

\* C13: the anchor is the first source of the chain that yields a position; a
\* stored position is used only when none of the four feature-derived sources
\* yields one.
C13_FeatureSourcesBeforeCache ==
    (call.fn = "extractDetailedGeometry" /\ call.done
       /\ FeatureDerived(call.feat) # NullPos)
    => call.geometry.position = FeatureDerived(call.feat)

\* C15: generateFloorModels returns false and creates no floor entity when
\* the resolved floor count is zero or negative, the building height is zero
\* or negative, or the record list is empty.
C15_DegenerateInputFails ==
    (/\ call.fn = "generateFloorModels" /\ call.done
     /\ \/ call.properties = << >>
        \/ getDetailedFloorInfo(call.properties).totalFloors <= 0
        \/ (call.geometry # NullGeometry /\ call.geometry.height <= 0))
    => /\ ~call.ok
       /\ floorEntities = << >>
       /\ \A e \in DOMAIN viewerEntities : e.t \notin {"floor", "part"}

\* The distinct floor indices among the records.
FloorIndices(properties) ==
    {properties[j].bwlg_vb0[1] :
        j \in {k \in 1..Len(properties) : properties[k].bwlg_vb0 # <<>>}}

\* The floor count by the stated priority: the first record's total-floor
\* field if positive, else highest - lowest + 1 if both are present, else the
\* number of distinct floor indices, else 15.
PriorityFloorCount(properties) ==
    LET first == properties[1] IN
    IF first.aant_bwlg_pnd # <<>> /\ first.aant_bwlg_pnd[1] > 0
    THEN first.aant_bwlg_pnd[1]
    ELSE IF first.hoogste_bwlg_pnd # <<>> /\ first.laagste_bwlg_pnd # <<>>
         THEN first.hoogste_bwlg_pnd[1] - first.laagste_bwlg_pnd[1] + 1
         ELSE IF FloorIndices(properties) # {}
              THEN Cardinality(FloorIndices(properties))
              ELSE 15

\* C17: the floor count used for generation follows the priority (a) total
\* floors of the first record, (b) highest - lowest + 1, (c) number of
\* distinct floor indices, (d) 15.
C17_FloorCountPriority ==
    (call.fn = "generateFloorModels" /\ call.done /\ call.ok)
    => /\ extractBuildingId(call.feat) \in DOMAIN floorEntities
       /\ Len(floorEntities[extractBuildingId(call.feat)])
            = PriorityFloorCount(call.properties)

\* The nominal vertical range of a floor: half a floor height below and above
\* its centre.
RangeLow(floor) == floor.z - floor.floorHeight \div 2
RangeHigh(floor) == floor.z + floor.floorHeight \div 2

\* C18: for floorCount >= 1 and buildingHeight h > 0, floor i is centred at
\* anchorHeight - h/2 + (i + 0.5) * h/floorCount; the floor ranges do not
\* overlap, consecutive ranges share a boundary and together they cover
\* exactly [anchorHeight - h/2, anchorHeight + h/2].  Heights are in units of
\* 1 / (2 * floorCount) metre.
C18_FloorsTileTheHeight ==
    (call.fn = "generateFloorModels" /\ call.done /\ call.ok
       /\ Len(call.floors) >= 1 /\ call.geometry.height > 0)
    => LET total == Len(call.floors)
           h == call.geometry.height
           unit == 2 * total
       IN /\ \A n \in 1..total :
               /\ call.floors[n].z =
                    unit * call.anchorHeight - total * h + (2 * (n - 1) + 1) * h
               /\ RangeLow(call.floors[n]) < RangeHigh(call.floors[n])
          /\ \A n \in 1..(total - 1) :
               RangeHigh(call.floors[n]) = RangeLow(call.floors[n + 1])
          /\ RangeLow(call.floors[1]) = unit * call.anchorHeight - total * h
          /\ RangeHigh(call.floors[total]) = unit * call.anchorHeight + total * h

\* Four floors over a building 30 m high anchored at 12 m have been generated.
C18_Witness ==
    /\ call.fn = "generateFloorModels" /\ call.done /\ call.ok
    /\ Len(call.floors) = 4 /\ call.geometry.height = 30 /\ call.anchorHeight = 12
    /\ call.floors[1].z < call.floors[4].z

\* C19: generateFloorModels creates exactly floorCount floor entities, numbered
\* 0 .. floorCount - 1 in ascending order, and the records of floor i are
\* exactly the input records whose floor index is i.
C19_FloorsAndTheirRecords ==
    (call.fn = "generateFloorModels" /\ call.done /\ call.ok)
    => LET key == extractBuildingId(call.feat)
           total == getDetailedFloorInfo(call.properties).totalFloors
       IN /\ key \in DOMAIN floorEntities
          /\ floorEntities[key] = [n \in 1..total |-> FloorEnt(key, n - 1)]
          /\ {e \in DOMAIN viewerEntities : e.t = "floor"}
               = {FloorEnt(key, i) : i \in 0..(total - 1)}
          /\ Len(call.floors) = total
          /\ \A n \in 1..total :
               /\ call.floors[n].floorNum = n - 1
               /\ \A j \in 1..Len(call.floors[n].properties) :
                    call.floors[n].properties[j].bwlg_vb0 = <<n - 1>>
               /\ Len(call.floors[n].properties)
                    = Cardinality({j \in 1..Len(call.properties) :
                                     call.properties[j].bwlg_vb0 = <<n - 1>>})

\* Records with floor indices 0, 0, 1 and two floors in total gave two
\* floors, with two records and one record.
C19_Witness ==
    /\ call.fn = "generateFloorModels" /\ call.done /\ call.ok
    /\ Len(call.properties) = 3
    /\ call.properties[1].bwlg_vb0 = <<0>> /\ call.properties[2].bwlg_vb0 = <<0>>
    /\ call.properties[3].bwlg_vb0 = <<1>>
    /\ call.properties[1].aant_bwlg_pnd = <<2>>
    /\ Len(call.floors) = 2
    /\ Len(call.floors[1].properties) = 2 /\ Len(call.floors[2].properties) = 1

\* a / b <= c / d for positive b and d
FracLeq(a, b, c, d) == a * d <= c * b

\* C20: floor 0 has the ground colour, the top floor the top colour, and the
\* hue of floor i between them is the ground hue plus i / (floorCount - 1) of
\* the way to the top hue, so the hue never moves back towards the ground hue
\* as the index rises.
C20_HueGradient ==
    (call.fn = "generateFloorModels" /\ call.done /\ call.ok /\ Len(call.floors) >= 2)
    => LET total == Len(call.floors)
           color(n) == call.floors[n].color
       IN /\ color(1) = GroundColor
          /\ color(total) = TopColor
          /\ \A n \in 2..(total - 1) :
               color(n).num * (GroundColor.den * TopColor.den * (total - 1))
                 = color(n).den * (GroundColor.num * TopColor.den * (total - n)
                                   + TopColor.num * GroundColor.den * (n - 1))
          /\ \A n \in 1..(total - 1) :
               FracLeq(color(n).num, color(n).den, color(n + 1).num, color(n + 1).den)

\* A toggle-on that produces no floors: no feature is selected, the re-fetch
\* fails or returns no records, or generation returns false.
ToggleOnFails ==
    \/ \E answer \in SceneAnswers :
         /\ ToggleClick(answer) /\ ~panel.active
         /\ \/ selectedFeature = Null
            \/ (currentBuildingId \in DOMAIN cache /\ cache[currentBuildingId] = << >>)
    \/ \E i \in 1..Len(pending) : ToggleFetchFails(i)
    \/ \E i \in 1..Len(pending) :
         ToggleFetchResolves(i) /\ RecordsOf(pending[i].id) = << >>
    \/ \E i \in 1..Len(pending) :
         /\ GenTimerFires(i)
         /\ ~generateFloorModels(
                World(floorEntities, buildingPositions, activeBuilding, viewerEntities),
                Feature(selectedFeature), pending[i].props).ok

\* C16: every toggle-on that produces no floors ends with the floor-generation
\* error and its retry offer shown, and the retry stores the position the
\* hand-surveyed table gives for the current building id before regenerating.
C16_ToggleFailureOffersRetry ==
    [][/\ ToggleOnFails => floorError'
       /\ (RetryClick /\ currentBuildingId # Null)
          => /\ currentBuildingId \in DOMAIN buildingPositions'
             /\ buildingPositions'[currentBuildingId]
                  = PositionInfo(getKnownBuildingPosition(currentBuildingId))]_vars

\* C14: once a position other than the default anchor is stored for a
\* building id, no later toggle or retry replaces it with the default anchor.
C14_StoredPositionNotDegraded ==
    [][\A id \in DOMAIN buildingPositions :
          buildingPositions[id].position # DefaultPosition
          => /\ id \in DOMAIN buildingPositions'
             /\ buildingPositions'[id].position # DefaultPosition]_vars

\* The canonical property names that hold an exact 16-digit string, by their
\* place in the order PANDID, pandid, id, ID, buildingId, gml:id.
ExactCanonical(feat) ==
    {i \in 1..Len(CanonicalNames) : feat.props[CanonicalNames[i]].k = "exact"}

\* C21: a feature with a canonical property that holds an exact 16-digit
\* string is identified by the first such property in the order PANDID,
\* pandid, id, ID, buildingId, gml:id, whatever the later strategies would give.
C21_FirstCanonicalWins ==
    (call.fn = "getFeatureBuildingId" /\ call.done /\ ExactCanonical(call.feat) # {})
    => \E i \in ExactCanonical(call.feat) :
          /\ \A j \in ExactCanonical(call.feat) : i <= j
          /\ call.id = call.feat.props[CanonicalNames[i]].s

\* PANDID = "0599100000668111" gave "0599100000668111" although gml:id and
\* the batch table hold the digits of other buildings.
C21_Witness ==
    /\ call.fn = "getFeatureBuildingId" /\ call.done
    /\ call.feat.props["PANDID"] = Val("exact", IdA)
    /\ call.feat.props["gml:id"] = Val("embedded", IdE)
    /\ call.feat.batch["identificatie"] = Val("exact", IdL)
    /\ call.id = IdA

\* C22: when some property value of the feature contains 16 consecutive
\* digits the identifier returns an id; it returns null only if no property
\* value contains a run of 16 digits.
C22_FallbackScan ==
    (call.fn = "getFeatureBuildingId" /\ call.done
       /\ \E n \in PropNames : MatchEmbedded16(call.feat.props[n]) # Null)
    => call.id # Null

C24_OptimisticDefault ==
    [][\A f \in TileFeatureNames :
          (~loaded /\ selectedFeature = f /\ selectedFeature' # f
             /\ ScanFrom(Feature(f), 1) # Null)
          => /\ hasBuildingId(State, ScanFrom(Feature(f), 1))
             /\ hasBuildingData(State, ScanFrom(Feature(f), 1))
             /\ featureColor'[f] = Color("WHITE", 7)]_vars

\* A step that updates the has-info set: a call of markBuildingHasInfo,
\* updateBuildingsWithInfo or setStyleManager, the completion of
\* loadFeatureMapping, or any step that changes one of the two has-info sets.
HasInfoUpdate ==
    \/ \E buildingId \in {Null, IdE} : MarkBuildingHasInfo(buildingId)
    \/ UpdateBuildingsWithInfo({IdA})
    \/ SetStyleManager
    \/ \E i \in 1..Len(pending) : \E pandIds \in {{}, {IdL, IdA}} : MappingResolves(i, pandIds)
    \/ buildingsWithInfo' # buildingsWithInfo
    \/ smBuildingsWithInfo' # smBuildingsWithInfo

\* C25: an update of the has-info set leaves the style of the tilesets, the
\* dataset membership set and the style manager's database ids as they were.
C25_HasInfoLeavesStyle ==
    [][HasInfoUpdate =>
          /\ tileSetStyle' = tileSetStyle
          /\ buildingIds' = buildingIds
          /\ loaded' = loaded
          /\ databaseBuildingIds' = databaseBuildingIds]_vars

\* The dataset filter styles the tilesets and both has-info sets hold an id
\* that the dataset does not.
C25_Witness ==
    /\ tileSetStyle = "buildingFilter"
    /\ IdA \in buildingsWithInfo
    /\ IdA \in smBuildingsWithInfo
    /\ IdA \notin buildingIds

\* C26: a load of the dataset that succeeds leaves exactly the ids it read as
\* the membership set, and setDatabaseBuildingIds leaves exactly the ids it
\* was given; every other step leaves the two sets as they were.
C26_ReloadReplaces ==
    [][/\ \A i \in 1..Len(pending) : \A ids \in DatasetFiles :
             LoadResolves(i, ids) => (buildingIds' = ids /\ loaded')
       /\ \A ids \in DatasetFiles :
             SetDatabaseBuildingIds(ids) => databaseBuildingIds' = ids
       /\ (~ \E i \in 1..Len(pending) : \E ids \in DatasetFiles : LoadResolves(i, ids))
             => (buildingIds' = buildingIds /\ loaded' = loaded)
       /\ (~ \E ids \in DatasetFiles : SetDatabaseBuildingIds(ids))
             => databaseBuildingIds' = databaseBuildingIds]_vars

\* A feature of the first dataset was deselected as a member, and a reload
\* has since left a dataset without its id.
C26_Witness ==
    /\ loaded
    /\ buildingIds = {IdA}
    /\ featureColor["fL"] = Color("WHITE", 7)

\* The tint the dataset classification assigns to a feature: the member
\* colour of applyBuildingFilter when the id the identifier returns is in
\* the dataset, its non-member colour otherwise.
ClassificationTint(feat) ==
    IF getFeatureBuildingId(feat) # Null
       /\ hasBuildingId(State, getFeatureBuildingId(feat))
    THEN inDatasetColor ELSE notInDatasetColor

\* C27: a pick while another feature is selected leaves that feature with the
\* tint the dataset classification assigns to it, one of the two colours of
\* applyBuildingFilter.
C27_DeselectedGetsDatasetTint ==
    [][\A f \in StylePicks :
          (StylePick(f) /\ selectedFeature # Null /\ selectedFeature # f)
          => featureColor'[selectedFeature] =
                ClassificationTint(Feature(selectedFeature))]_vars

\* C28: a request of getPropertiesByPandId that fails stores nothing in the
\* cache and its error reaches the caller, which shows it; and a pick of a
\* feature whose id the cache does not hold issues a new request for that id.
C28_FailureRetryable ==
    [][/\ \A i \in 1..Len(pending) :
             /\ PickFetchFails(i) =>
                   (cache' = cache /\ panel'.visible /\ panel'.kind = "error")
             /\ (ToggleFetchFails(i) \/ RetryFetchFails(i)) =>
                   (cache' = cache /\ floorError')
       /\ \A f \in FeatureNames :
             (PickFeature(f) /\ getFeatureBuildingId(Feature(f)) # Null
                /\ getFeatureBuildingId(Feature(f)) \notin DOMAIN cache)
             => pending' = Append(pending,
                   Task("pickFetch", getFeatureBuildingId(Feature(f)), << >>, NullPos, Null))]_vars

\* After a failed request the cache is empty, the panel shows the error, and
\* the next pick has a new request in flight.
C28_Witness ==
    /\ clicks = 2
    /\ cache = << >>
    /\ panel.visible /\ panel.kind = "error"
    /\ Len(pending) = 1
    /\ pending[1].kind = "pickFetch"
    /\ pending[1].id = currentBuildingId
    /\ selectedFeature = "fL"

\* The floor map gains or changes an entry in this step.
FloorsGenerated ==
    \E k \in DOMAIN floorEntities' :
       k \notin DOMAIN floorEntities \/ floorEntities'[k] # floorEntities[k]

\* C29: when the delayed generation of a toggle-on builds floors, the feature
\* selected is the building whose records the toggle fetched: none are built
\* for a feature picked in between, and none once the selection is cleared.
C29_FloorsOfToggledBuilding ==
    [][\A i \in 1..Len(pending) :
          (GenTimerFires(i) /\ FloorsGenerated) =>
              /\ selectedFeature # Null
              /\ getFeatureBuildingId(Feature(selectedFeature)) = pending[i].props[1].pandid]_vars

\* C30: when a feature is selected and a building id is current (the
\* identification of a pick is over once its click has been handled), the
\* current building id is the id the identifier returns for that feature.
C30_CurrentIdOfSelection ==
    (selectedFeature # Null /\ currentBuildingId # Null)
    => currentBuildingId = getFeatureBuildingId(Feature(selectedFeature))

\* C31: a click on a floor entity leaves selectedFeature, currentBuildingId,
\* the info panel and the floor entities as they were.
C31_FloorClickKeepsSelection ==
    [][PickFloor =>
          /\ selectedFeature' = selectedFeature
          /\ currentBuildingId' = currentBuildingId
          /\ panel' = panel
          /\ floorEntities' = floorEntities
          /\ viewerEntities' = viewerEntities]_vars

\* C32: when a position is stored for the current building and the selected
\* feature is the one the current id was read from, extractBuildingId of that
\* feature is the current id, so that generateFloorModels looks the position
\* up under the key it was stored under.
C32_PositionKeysAgree ==
    (selectedFeature # Null /\ currentBuildingId # Null
       /\ currentBuildingId \in DOMAIN buildingPositions
       /\ getFeatureBuildingId(Feature(selectedFeature)) = currentBuildingId)
    => extractBuildingId(Feature(selectedFeature)) = currentBuildingId

\* What generateFloorModels gives when the timer of pending[i] fires now.
TimerGeneration(i) ==
    generateFloorModels(World(floorEntities, buildingPositions, activeBuilding,
                              viewerEntities),
                        Feature(selectedFeature), pending[i].props)

\* C33: when the generateFloorModels call of a generation timer returns
\* false, it leaves the floorEntities map and the entities of the viewer as
\* they were before the call.
C33_FailedGenerationKeepsFloors ==
    [][\A i \in 1..Len(pending) :
          ((GenTimerFires(i) \/ RetryTimerFires(i)) /\ ~TimerGeneration(i).ok)
          => /\ TimerGeneration(i).w.fe = floorEntities
             /\ TimerGeneration(i).w.vw = viewerEntities]_vars

\* A generation timer is about to fail while the viewer shows floors, and
\* its failure will be reported.
C33_Witness ==
    /\ DOMAIN floorEntities # {}
    /\ \E e \in DOMAIN viewerEntities : e.t = "floor"
    /\ \E i \in 1..Len(pending) :
          /\ pending[i].kind \in {"genTimer", "retryTimer"}
          /\ FirstTimer(i)
          /\ ~TimerGeneration(i).ok

\* A floor entity tracked by the selector's FloorGenerator that the viewer shows.
VisibleTrackedFloors(fe, vw) ==
    {e \in UNION {Range(fe[k]) : k \in DOMAIN fe} : e \in DOMAIN vw /\ vw[e]}

\* C34: a click on the Floor Mode button that turns the mode off leaves no
\* floor entity generated by the building selector's FloorGenerator visible.
C34_FloorModeOffHidesFloors ==
    [][(FloorModeClick /\ floorModeActive)
          => VisibleTrackedFloors(floorEntities', viewerEntities') = {}]_vars

\* The fetch started by the latest click, the n-th, a pick of a feature, is
\* still awaited.
PickAwaited(n) ==
    /\ clicks = n
    /\ selectedFeature # Null
    /\ currentBuildingId = getFeatureBuildingId(Feature(selectedFeature))
    /\ \E i \in 1..Len(pending) :
          pending[i].kind = "pickFetch" /\ pending[i].id = currentBuildingId

\* The panel shows an outcome of a pick of the building id: its records, the
\* no-data message for it, or an error.
OutcomeShown(id) ==
    /\ panel.visible
    /\ \/ panel.kind = "props" /\ panel.subject = id
       \/ panel.kind = "nodata" /\ panel.subject = id
       \/ panel.kind = "error"

NoPickFetchPending == \A i \in 1..Len(pending) : pending[i].kind # "pickFetch"

\* C35: a pick whose fetch is awaited leads, with no further click, to a state
\* where every pick's fetch has been answered and the panel shows the outcome
\* of that latest pick (the current building id is the one of the latest
\* pick until the next click).
C35_LatestPickResolves ==
    \A n \in 1..MaxClicks :
       PickAwaited(n)
          ~> (clicks > n \/ (NoPickFetchPending /\ OutcomeShown(currentBuildingId)))

\* The requests for the records of id among the tasks in flight.
RequestsFor(tasks, id) ==
    {i \in 1..Len(tasks) :
        tasks[i].kind \in {"pickFetch", "toggleFetch", "retryFetch"} /\ tasks[i].id = id}

C37_HasInfoSetsAgree == buildingsWithInfo \subseteq smBuildingsWithInfo

\* C38: a line whose floor field is the decimal text of an index i >= 0 is
\* delivered, by the import and by the file fallback, as a record with floor
\* index i.
C38_FloorIndexSurvives ==
    (call.fn = "ingest" /\ call.done)
       => \A i \in {0, 2, 10} :
             (~parseInt(call.line.bwlg_vb0).nan /\ parseInt(call.line.bwlg_vb0).n = i)
                => call.row.bwlg_vb0 = <<i>>

\* C39: once displayProperties has stored a non-empty list, after every call
\* and every click on Previous, Next or a page number the current page is
\* between 1 and ceil(count / 10) and the records listed are exactly those
\* with indices (currentPage - 1) * 10 .. min(currentPage * 10, count) - 1;
\* displayProperties of a non-empty list sets the current page to 1.
C39_PageInRange ==
    [][/\ (allProperties' > 0 /\ pagination'.rendered)
            => /\ 1 <= currentPage' /\ currentPage' <= totalPagesOf(allProperties')
               /\ pagination'.shown
                    = (currentPage' - 1) * 10
                        .. (Min(currentPage' * 10, allProperties') - 1)
       /\ \A count \in PropertyCounts \ {0} :
             DisplayProperties(count) => currentPage' = 1 /\ allProperties' = count]_vars

\* The last page of a list of 61 records is shown after clicks on the page
\* buttons.
C39_Witness ==
    allProperties = 61 /\ currentPage = 7 /\ pagination.shown = {60}

====
